---------------------------- MODULE Spec2Model ----------------------------
(***************************************************************************)
(* Autocorrect for Logseq: the correction engine of src/src/autocorrect.ts *)
(* and its caller processAutocorrect of src/src/index.ts.                  *)
(*                                                                         *)
(* A JavaScript string is a sequence of one-character strings, so that     *)
(* slicing, case conversion, the boundary scan and the backtick count act  *)
(* on characters as the code does.  Offsets are 0-based as in the source;  *)
(* slice(s, a, b) is s.slice(a, b).  Case conversion covers the ASCII      *)
(* letters; every other character of the model is its own upper and lower *)
(* case, as in JavaScript for ASCII punctuation and digits.                *)
(***************************************************************************)
EXTENDS Integers, Sequences, FiniteSets, TLC

VARIABLES
  text,                     \* content of the block being edited (host state)
  cursorPos,                \* host cursor offset in text, 0..Len(text)
  cachedRules,              \* index.ts:59 the effective table (a Map)
  enabled,                  \* logseq.settings.enabled
  lastCorrectedBlockUuid,   \* index.ts:233
  lastCorrectedContentHash, \* index.ts:234
  pc,                       \* which call produced result: "idle", "replaced", "processed"
  result,                   \* value returned by the last call
  lastInput,                \* argument of shouldTrigger
  triggered,                \* <<>> before the call, then <<value returned>>
  doc,                      \* the personal rules as the user wrote them
  personalInput,            \* argument of parsePersonalRules: the text of doc
  parsed,                   \* <<>> before the call, then <<rules returned>>
  settingsPersonalRules,    \* logseq.settings.personalRules
  settingsRemoteCachedRules,\* logseq.settings.remoteCachedRules: <<>> or <<table>>
  baseSafe,                 \* index.ts 8
  remote,                   \* index.ts 10: <<>> for null, or <<table>>
  baseLoaded,               \* index.ts 61
  personalRulesText,        \* index.ts 60
  loadedRemote,             \* value of loadCachedRemoteRules() called at startup
  dictionaryLoading,        \* "pending" until the deferred load has resolved
  refreshing,               \* "pending", then "none" (null) or "refreshed"
  builtFrom,                \* <<>>, or <<arguments and text of the last rebuildRules>>
  observed,                 \* <<>>, or <<the table the last lookup was given>>
  handlers,                 \* each keydown handler: where it is and what it has read
  updates,                  \* the updateBlock calls issued so far
  version,                  \* number of changes of the block's text so far
  edits,                    \* number of times the user has typed so far
  dictContent,              \* argument of parseCodespellDictionary
  dictRules,                \* <<>> before the call, then <<rules returned>>
  sourcesLeft,              \* build-dict.ts main: the sources not yet visited
  dictionaries,             \* build-dict.ts 199
  written,                  \* <<>>, or <<the table written to base_safe.json>>
  now,                      \* Date.now(), in milliseconds
  remoteLastChecked,        \* logseq.settings.remoteLastChecked, 0 when absent
  remoteETag,               \* logseq.settings.remoteETag, "" when absent
  fetchPc,                  \* where maybeRefreshRemoteRules is
  opts,                     \* its argument
  response,                 \* what fetch resolved to
  outcome,                  \* how the promise it returned was settled
  atCall,                   \* the cached table and ETag when it was called
  fetches,                  \* the fetch calls issued so far
  calls,                    \* number of calls so far, one per session
  attempt,                  \* the trigger path that is running, and what it has read
  scheduled,                \* the trigger paths the last keystroke has scheduled
  lastContent,              \* index.ts 257
  lastBlockUuid,            \* index.ts 258
  pollIntervalMs,           \* index.ts 707
  consecutiveIdlePolls,     \* index.ts 709
  reports,                  \* what checkEditing answered in each poll iteration
  editingUuid,              \* the block the user is editing
  contents,                 \* the content of every block
  reader,                   \* a handler invocation and what it has read
  pair,                     \* a typo and a correction
  verdicts                  \* <<>> or what the two safety checks say of pair

engineVars == <<text, cursorPos, cachedRules, enabled, lastCorrectedBlockUuid,
                lastCorrectedContentHash, pc, result>>

triggerVars == <<lastInput, triggered>>

parseVars == <<doc, personalInput, parsed>>

rulesVars == <<settingsPersonalRules, settingsRemoteCachedRules, baseSafe, remote,
               baseLoaded, personalRulesText, loadedRemote, dictionaryLoading,
               refreshing, builtFrom, observed>>

hostVars == <<handlers, updates, version, edits>>

filterVars == <<dictContent, dictRules>>

buildVars == <<sourcesLeft, dictionaries, written>>

fetchVars == <<now, remoteLastChecked, remoteETag, fetchPc, opts, response, outcome,
               atCall, fetches, calls>>

pathVars == <<attempt, scheduled, lastContent, lastBlockUuid>>

pollVars == <<pollIntervalMs, consecutiveIdlePolls, reports>>

blockVars == <<editingUuid, contents, reader>>

safeVars == <<pair, verdicts>>

moreVars == <<pollVars, blockVars, safeVars>>

laterVars == <<filterVars, buildVars, fetchVars, pathVars, moreVars>>

vars == <<engineVars, triggerVars, parseVars, rulesVars, hostVars, laterVars>>

---------------------------------------------------------------------------
(* Characters and strings *)

LowerLetters ==
  <<"a","b","c","d","e","f","g","h","i","j","k","l","m",
    "n","o","p","q","r","s","t","u","v","w","x","y","z">>

UpperLetters ==
  <<"A","B","C","D","E","F","G","H","I","J","K","L","M",
    "N","O","P","Q","R","S","T","U","V","W","X","Y","Z">>

Digits == {"0","1","2","3","4","5","6","7","8","9"}

toUpperCaseChar(c) ==
  IF \E i \in 1..Len(LowerLetters) : LowerLetters[i] = c
  THEN UpperLetters[CHOOSE i \in 1..Len(LowerLetters) : LowerLetters[i] = c]
  ELSE c

toLowerCaseChar(c) ==
  IF \E i \in 1..Len(UpperLetters) : UpperLetters[i] = c
  THEN LowerLetters[CHOOSE i \in 1..Len(UpperLetters) : UpperLetters[i] = c]
  ELSE c

toUpperCase(s) == [i \in 1..Len(s) |-> toUpperCaseChar(s[i])]

toLowerCase(s) == [i \in 1..Len(s) |-> toLowerCaseChar(s[i])]

Min(a, b) == IF a < b THEN a ELSE b

Max(a, b) == IF a > b THEN a ELSE b

\* String.prototype.slice(a, b) for 0 <= a, b (clamped to the length).
slice(s, a, b) == SubSeq(s, Min(a, Len(s)) + 1, Min(b, Len(s)))

\* String.prototype.slice(a): from offset a to the end.
sliceFrom(s, a) == SubSeq(s, Min(a, Len(s)) + 1, Len(s))

---------------------------------------------------------------------------
(* autocorrect.ts: the word sets *)

UK_ENGLISH_WORDS ==
  {
    <<"c","o","l","o","u","r">>, <<"c","o","l","o","u","r","s">>,
    <<"c","o","l","o","u","r","e","d">>, <<"c","o","l","o","u","r","i","n","g">>,
    <<"f","a","v","o","u","r">>, <<"f","a","v","o","u","r","s">>,
    <<"f","a","v","o","u","r","e","d">>, <<"f","a","v","o","u","r","i","n","g">>,
    <<"f","a","v","o","u","r","i","t","e">>, <<"f","a","v","o","u","r","i","t","e","s">>,
    <<"b","e","h","a","v","i","o","u","r">>, <<"b","e","h","a","v","i","o","u","r","s">>,
    <<"b","e","h","a","v","i","o","u","r","a","l">>, <<"h","o","n","o","u","r">>,
    <<"h","o","n","o","u","r","s">>, <<"h","o","n","o","u","r","e","d">>,
    <<"h","o","n","o","u","r","i","n","g">>, <<"h","o","n","o","u","r","a","b","l","e">>,
    <<"l","a","b","o","u","r">>, <<"l","a","b","o","u","r","s">>,
    <<"l","a","b","o","u","r","e","d">>, <<"l","a","b","o","u","r","i","n","g">>,
    <<"l","a","b","o","u","r","e","r">>, <<"l","a","b","o","u","r","e","r","s">>,
    <<"o","r","g","a","n","i","s","e">>, <<"o","r","g","a","n","i","s","e","s">>,
    <<"o","r","g","a","n","i","s","e","d">>, <<"o","r","g","a","n","i","s","i","n","g">>,
    <<"o","r","g","a","n","i","s","a","t","i","o","n">>, <<"o","r","g","a","n","i","s","a","t","i","o","n","s">>,
    <<"r","e","a","l","i","s","e">>, <<"r","e","a","l","i","s","e","s">>,
    <<"r","e","a","l","i","s","e","d">>, <<"r","e","a","l","i","s","i","n","g">>,
    <<"r","e","a","l","i","s","a","t","i","o","n">>, <<"r","e","a","l","i","s","a","t","i","o","n","s">>,
    <<"r","e","c","o","g","n","i","s","e">>, <<"r","e","c","o","g","n","i","s","e","s">>,
    <<"r","e","c","o","g","n","i","s","e","d">>, <<"r","e","c","o","g","n","i","s","i","n","g">>,
    <<"r","e","c","o","g","n","i","t","i","o","n">>, <<"a","n","a","l","y","s","e">>,
    <<"a","n","a","l","y","s","e","s">>, <<"a","n","a","l","y","s","e","d">>,
    <<"a","n","a","l","y","s","i","n","g">>, <<"a","n","a","l","y","s","i","s">>,
    <<"c","e","n","t","r","e">>, <<"c","e","n","t","r","e","s">>,
    <<"c","e","n","t","r","e","d">>, <<"c","e","n","t","r","i","n","g">>,
    <<"m","e","t","r","e">>, <<"m","e","t","r","e","s">>,
    <<"t","h","e","a","t","r","e">>, <<"t","h","e","a","t","r","e","s">>,
    <<"t","h","e","a","t","r","i","c","a","l">>, <<"d","e","f","e","n","c","e">>,
    <<"d","e","f","e","n","c","e","s">>, <<"l","i","c","e","n","c","e">>,
    <<"l","i","c","e","n","c","e","s">>, <<"l","i","c","e","n","c","e","d">>,
    <<"l","i","c","e","n","c","i","n","g">>, <<"p","r","a","c","t","i","c","e">>,
    <<"p","r","a","c","t","i","s","e">>, <<"p","r","a","c","t","i","s","e","d">>,
    <<"p","r","a","c","t","i","s","i","n","g">>, <<"p","r","o","g","r","a","m","m","e">>,
    <<"p","r","o","g","r","a","m","m","e","s">>, <<"t","r","a","v","e","l","l","e","d">>,
    <<"t","r","a","v","e","l","l","i","n","g">>, <<"t","r","a","v","e","l","l","e","r">>,
    <<"t","r","a","v","e","l","l","e","r","s">>, <<"c","a","n","c","e","l","l","e","d">>,
    <<"c","a","n","c","e","l","l","i","n","g">>, <<"c","a","n","c","e","l","l","a","t","i","o","n">>
  }

AMBIGUOUS_WORDS ==
  {
    <<"f","r","o","m">>, <<"f","o","r","m">>,
    <<"f","o","r">>, <<"f","a","r">>,
    <<"f","o","r","a">>, <<"t","o">>,
    <<"t","o","o">>, <<"t","w","o">>,
    <<"t","h","e","r","e">>, <<"t","h","e","i","r">>,
    <<"t","h","e","y","'","r","e">>, <<"i","t","s">>,
    <<"i","t","'","s">>, <<"y","o","u","r">>,
    <<"y","o","u","'","r","e">>, <<"w","e","r","e">>,
    <<"w","e","'","r","e">>, <<"t","h","a","n">>,
    <<"t","h","e","n">>, <<"a","f","f","e","c","t">>,
    <<"e","f","f","e","c","t">>, <<"a","c","c","e","p","t">>,
    <<"e","x","c","e","p","t">>, <<"a","d","v","i","c","e">>,
    <<"a","d","v","i","s","e">>, <<"l","o","o","s","e">>,
    <<"l","o","s","e">>, <<"p","a","s","s","e","d">>,
    <<"p","a","s","t">>, <<"p","r","i","n","c","i","p","a","l">>,
    <<"p","r","i","n","c","i","p","l","e">>, <<"s","t","a","t","i","o","n","a","r","y">>,
    <<"s","t","a","t","i","o","n","e","r","y">>, <<"w","e","a","t","h","e","r">>,
    <<"w","h","e","t","h","e","r">>, <<"w","h","o">>,
    <<"w","h","o","m">>, <<"w","h","i","c","h">>,
    <<"w","i","t","c","h">>
  }

SafeShortPairs ==
  {
    <<<<"t","e","h">>, <<"t","h","e">>>>,
    <<<<"a","d","n">>, <<"a","n","d">>>>,
    <<<<"t","a","h","t">>, <<"t","h","a","t">>>>,
    <<<<"t","h","s","i">>, <<"t","h","i","s">>>>,
    <<<<"w","o","u","d","l">>, <<"w","o","u","l","d">>>>,
    <<<<"w","o","l","u","d">>, <<"w","o","u","l","d">>>>,
    <<<<"c","o","u","d","l">>, <<"c","o","u","l","d">>>>,
    <<<<"s","h","o","u","d","l">>, <<"s","h","o","u","l","d">>>>,
    <<<<"w","a","h","t">>, <<"w","h","a","t">>>>,
    <<<<"h","w","a","t">>, <<"w","h","a","t">>>>
  }

SAFE_SHORT_TYPOS ==
  [k \in {p[1] : p \in SafeShortPairs} |->
     (CHOOSE p \in SafeShortPairs : p[1] = k)[2]]

\* /[\s.,;:!?()[\]{}"']/ : \s is covered by space, tab, newline, CR, form feed.
BoundaryChars ==
  {" ", "\t", "\n", "\r", "\f",
   ".", ",", ";", ":", "!", "?", "(", ")", "[", "]", "{", "}", "\"", "'"}

BOUNDARY_RE(c) == c \in BoundaryChars

MIN_SAFE_LENGTH == 5

---------------------------------------------------------------------------
(* autocorrect.ts: the functions *)

\* The code delimiter U+0060, which a TLA+ string cannot hold.
BACKTICK == "BACKTICK"

\* (before.match(/\u0060/g) || []).length
backtickCount(before) == Cardinality({i \in 1..Len(before) : before[i] = BACKTICK})

\* Mutant: "inside code" only when exactly one delimiter precedes the cursor.
isInCodeBlock_One(t, pos) == backtickCount(slice(t, 0, pos)) = 1

isInCodeBlock(t, pos) == backtickCount(slice(t, 0, pos)) % 2 = 1

\* Mutant: the underscore test is missing.
isLikelyCode_DigitsOnly(word) == \E i \in 1..Len(word) : word[i] \in Digits

isLikelyCode(word) ==
  \/ \E i \in 1..Len(word) : word[i] \in Digits
  \/ \E i \in 1..Len(word) : word[i] = "_"

\* Mutant: the first character is tested, not the last.
shouldTrigger_First(input) ==
  IF input = <<>> THEN FALSE
  ELSE BOUNDARY_RE(input[1])

\* input is a string, or <<>> for "" and for undefined (both falsy).
shouldTrigger(input) ==
  IF input = <<>> THEN FALSE
  ELSE BOUNDARY_RE(input[Len(input)])

\* Mutant: the dialect-protected set is not consulted.
isSafeToCorrect_NoDialect(word, correction) ==
  LET wordLower == toLowerCase(word)
      correctionLower == toLowerCase(correction)
  IN  IF wordLower \in AMBIGUOUS_WORDS THEN FALSE
      ELSE IF correctionLower \in AMBIGUOUS_WORDS THEN FALSE
      ELSE IF wordLower \in DOMAIN SAFE_SHORT_TYPOS
              /\ SAFE_SHORT_TYPOS[wordLower] = correctionLower THEN TRUE
      ELSE IF Len(wordLower) < MIN_SAFE_LENGTH THEN FALSE
      ELSE TRUE

\* Mutant: only the typed word is checked against the ambiguous set.
isSafeToCorrect_WordOnly(word, correction) ==
  LET wordLower == toLowerCase(word)
      correctionLower == toLowerCase(correction)
  IN  IF wordLower \in UK_ENGLISH_WORDS THEN FALSE
      ELSE IF wordLower \in AMBIGUOUS_WORDS THEN FALSE
      ELSE IF wordLower \in DOMAIN SAFE_SHORT_TYPOS
              /\ SAFE_SHORT_TYPOS[wordLower] = correctionLower THEN TRUE
      ELSE IF Len(wordLower) < MIN_SAFE_LENGTH THEN FALSE
      ELSE TRUE

\* Mutant: a key of the exception list is safe whatever its correction.
isSafeToCorrect_KeyOnly(word, correction) ==
  LET wordLower == toLowerCase(word)
      correctionLower == toLowerCase(correction)
  IN  IF wordLower \in UK_ENGLISH_WORDS THEN FALSE
      ELSE IF wordLower \in AMBIGUOUS_WORDS THEN FALSE
      ELSE IF correctionLower \in AMBIGUOUS_WORDS THEN FALSE
      ELSE IF wordLower \in DOMAIN SAFE_SHORT_TYPOS THEN TRUE
      ELSE IF Len(wordLower) < MIN_SAFE_LENGTH THEN FALSE
      ELSE TRUE

isSafeToCorrect(word, correction) ==
  LET wordLower == toLowerCase(word)
      correctionLower == toLowerCase(correction)
  IN  IF wordLower \in UK_ENGLISH_WORDS THEN FALSE
      ELSE IF wordLower \in AMBIGUOUS_WORDS THEN FALSE
      ELSE IF correctionLower \in AMBIGUOUS_WORDS THEN FALSE
      ELSE IF wordLower \in DOMAIN SAFE_SHORT_TYPOS
              /\ SAFE_SHORT_TYPOS[wordLower] = correctionLower THEN TRUE
      ELSE IF Len(wordLower) < MIN_SAFE_LENGTH THEN FALSE
      ELSE TRUE

\* original and replacement are non-empty where the code calls it.
preserveCase(original, replacement) ==
  IF original = toUpperCase(original) THEN toUpperCase(replacement)
  ELSE IF original[1] = toUpperCaseChar(original[1])
       THEN <<toUpperCaseChar(replacement[1])>> \o sliceFrom(replacement, 1)
       ELSE replacement

\* The backward scan: let i = left.length - 1; while (i >= 0 && !BOUNDARY) i--;
\* start = i + 1, the 0-based offset one past the last boundary character.
wordStart(left) ==
  LET B == {i \in 1..Len(left) : BOUNDARY_RE(left[i])}
  IN  IF B = {} THEN 0 ELSE CHOOSE i \in B : \A j \in B : j <= i

\* rules.get(key) of a Map<string, string>: the value, or Undefined.
Undefined == <<"undefined">>

rulesGet(rules, key) == IF key \in DOMAIN rules THEN rules[key] ELSE Undefined

\* !replacement : undefined and "" are falsy.
falsy(v) == v = Undefined \/ v = <<>>

\* Mutant: a rule that maps a word to itself is not filtered out.
noReplacement_FalsyOnly(replacement, wordLower) == falsy(replacement)

\* line 155: !replacement || replacement === wordLower
noReplacement(replacement, wordLower) ==
  falsy(replacement) \/ replacement = wordLower

Null == [ok |-> FALSE, newText |-> <<>>, newCursorPos |-> 0]

\* Mutant: the corrected word is appended to left, the typo is not cut out.
spliceText_KeepWord(left, start, corrected, right) == left \o corrected \o right

\* newLeft + right, lines 163-164
spliceText(left, start, corrected, right) == slice(left, 0, start) \o corrected \o right

\* Mutant: the cursor is not shifted.
shiftCursor_None(pos, corrected, word) == pos

\* line 165
shiftCursor(pos, corrected, word) == pos + (Len(corrected) - Len(word))

replaceWordBeforeCursor(t, pos, rules) ==
  IF isInCodeBlock(t, pos) THEN Null
  ELSE
    LET left == slice(t, 0, pos)
        right == sliceFrom(t, pos)
        start == wordStart(left)
        word == sliceFrom(left, start)
    IN  IF word = <<>> THEN Null
        ELSE IF isLikelyCode(word) THEN Null
        ELSE
          LET wordLower == toLowerCase(word)
              replacement == rulesGet(rules, wordLower)
          IN  IF noReplacement(replacement, wordLower) THEN Null
              ELSE IF ~isSafeToCorrect(word, replacement) THEN Null
              ELSE
                LET corrected == preserveCase(word, replacement)
                IN  [ok |-> TRUE,
                     newText |-> spliceText(left, start, corrected, right),
                     newCursorPos |-> shiftCursor(pos, corrected, word)]

---------------------------------------------------------------------------
(* index.ts: content-based suppression and processAutocorrect *)

\* content.length : content.slice(0, 10) : content.slice(-10), and "" for "".
\* The three parts are kept as a triple: equal strings iff equal triples.
hashContent(content) ==
  IF Len(content) = 0 THEN <<0, <<>>, <<>>>>
  ELSE <<Len(content), slice(content, 0, 10),
         sliceFrom(content, Max(0, Len(content) - 10))>>

NullUuid == "null"

NullHash == <<-1, <<>>, <<>>>>

shouldSuppress(blockUuid, content) ==
  lastCorrectedBlockUuid = blockUuid /\ lastCorrectedContentHash = hashContent(content)

\* content[i]: a one-character string, or <<>> for undefined.
charAt(content, i) == IF i >= 0 /\ i < Len(content) THEN <<content[i + 1]>> ELSE <<>>

processAutocorrect(content, pos, blockUuid) ==
  IF ~enabled THEN Null
  ELSE IF shouldSuppress(blockUuid, content) THEN Null
  ELSE IF Cardinality(DOMAIN cachedRules) = 0 THEN Null
  ELSE
    LET checkChar == IF pos > 0 THEN charAt(content, pos - 1) ELSE charAt(content, pos)
    IN  IF ~shouldTrigger(checkChar) THEN Null
        ELSE
          LET checkPos == IF pos > 0 THEN pos - 1 ELSE pos
              replaced == replaceWordBeforeCursor(content, checkPos, cachedRules)
          IN  IF ~replaced.ok \/ replaced.newText = <<>> THEN Null ELSE replaced

---------------------------------------------------------------------------
(* Inputs: texts prefix \o word \o suffix, and rule tables *)

MaxBackticks == 3

Backticks(k) == [i \in 1..k |-> BACKTICK]

Leads == { <<>>, <<" ">>, <<"I"," ","t","y","p","e","d"," ">> }

Prefixes == { Backticks(k) \o l : k \in 0..MaxBackticks, l \in Leads }

TypedWords ==
  {
    <<"t","e","h">>, <<"T","e","h">>, <<"T","E","H">>, <<"t","E","h">>,
    <<"a","d","n">>, <<"t","a","h","t">>, <<"s","i","a","d">>, <<"a","b">>,
    <<"c","o","l","o","u","r">>, <<"C","o","l","o","u","r">>,
    <<"C","O","L","O","U","R">>,
    <<"f","r","o","m">>, <<"F","r","o","m">>, <<"t","h","i","e","r">>,
    <<"w","i","e","r","d">>, <<"W","i","e","r","d">>, <<"W","I","E","R","D">>,
    <<"u","n","t","i","l","l">>, <<"o","c","c","u","r","e","d">>,
    <<"h","e","l","l","o">>, <<"w","e","i","r","d">>,
    <<"h","3","l","l","o">>, <<"m","y","_","v","a","r">>,
    <<"-","-","-","-","-">>
  }

Suffixes == { <<>>, <<" ">>, <<".", BACKTICK>> }

Texts == { p \o w \o s : p \in Prefixes, w \in TypedWords, s \in Suffixes }

MkRules(pairs) ==
  [k \in {p[1] : p \in pairs} |-> (CHOOSE p \in pairs : p[1] = k)[2]]

\* Left operand wins: { ...b, ...a }
Override(a, b) ==
  [k \in DOMAIN a \cup DOMAIN b |-> IF k \in DOMAIN a THEN a[k] ELSE b[k]]

\* new Map(): the dictionary has not been loaded yet
NoRules == MkRules({})

\* a table as the dictionary filter produces it
SafeRules ==
  MkRules({
    << <<"t","e","h">>, <<"t","h","e">> >>,
    << <<"a","d","n">>, <<"a","n","d">> >>,
    << <<"t","a","h","t">>, <<"t","h","a","t">> >>,
    << <<"w","i","e","r","d">>, <<"w","e","i","r","d">> >>,
    << <<"u","n","t","i","l","l">>, <<"u","n","t","i","l">> >>,
    << <<"o","c","c","u","r","e","d">>, <<"o","c","c","u","r","r","e","d">> >>
  })

\* the same table under personal and remote rules that no filter has seen:
\* remote values are composed as received (index.ts:68), so "And" keeps its case
UnfilteredRules ==
  Override(
    MkRules({
      << <<"c","o","l","o","u","r">>, <<"c","o","l","o","r">> >>,
      << <<"f","r","o","m">>, <<"f","o","r","m">> >>,
      << <<"t","h","i","e","r">>, <<"t","h","e","i","r">> >>,
      << <<"s","i","a","d">>, <<"s","a","i","d">> >>,
      << <<"t","a","h","t">>, <<"t","a","r","t">> >>,
      << <<"a","b">>, <<"a","b","c","d">> >>,
      << <<"a","d","n">>, <<"A","n","d">> >>,
      << <<"h","3","l","l","o">>, <<"h","e","l","l","o">> >>,
      << <<"m","y","_","v","a","r">>, <<"m","y","v","a","r">> >>,
      << <<"-","-","-","-","-">>, <<"h","l","i","n","e">> >>,
      << <<"w","e","i","r","d">>, <<"w","e","i","r","d">> >>
    }),
    SafeRules)

RuleTables == { NoRules, SafeRules, UnfilteredRules }

CurrentBlock == "b1"

---------------------------------------------------------------------------
(* parsePersonalRules: autocorrect.ts 170-204 *)

\* characters String.prototype.trim and /\s/ remove (of those that occur)
WhiteSpace == {" ", "\t", "\n", "\r", "\f"}

trim(s) ==
  LET K == {i \in 1..Len(s) : s[i] \notin WhiteSpace}
  IN  IF K = {} THEN <<>>
      ELSE SubSeq(s, CHOOSE i \in K : \A j \in K : i <= j,
                     CHOOSE i \in K : \A j \in K : j <= i)

startsWith(s, c) == Len(s) > 0 /\ s[1] = c

endsWith(s, c) == Len(s) > 0 /\ s[Len(s)] = c

\* parts.join(sep)
RECURSIVE join(_, _)
join(parts, sep) ==
  IF parts = <<>> THEN <<>>
  ELSE IF Len(parts) = 1 THEN parts[1]
  ELSE parts[1] \o sep \o join(Tail(parts), sep)

\* s.split(/\r?\n/)
RECURSIVE splitLines(_)
splitLines(s) ==
  LET N == {i \in 1..Len(s) : s[i] = "\n"}
  IN  IF N = {} THEN <<s>>
      ELSE LET i == CHOOSE i \in N : \A j \in N : i <= j
               e == IF i > 1 /\ s[i - 1] = "\r" THEN i - 2 ELSE i - 1
           IN  <<SubSeq(s, 1, e)>> \o splitLines(SubSeq(s, i + 1, Len(s)))

\* s.split(/\s+/) of a trimmed, non-empty string: its runs of non-space
RECURSIVE splitSpaces(_)
splitSpaces(s) ==
  LET W == {i \in 1..Len(s) : s[i] \in WhiteSpace}
  IN  IF W = {} THEN <<s>>
      ELSE LET i == CHOOSE i \in W : \A j \in W : i <= j
           IN  <<SubSeq(s, 1, i - 1)>> \o splitSpaces(trim(SubSeq(s, i, Len(s))))

\* Mutant: only the token after the typo is kept as the correction.
lineCorrection_OneToken(parts) == toLowerCase(parts[2])

\* line 200: parts.slice(1).join(" ").toLowerCase()
lineCorrection(parts) == toLowerCase(join(Tail(parts), <<" ">>))

\* lines 194-202: the loop of the line-based format, rules[typo] = correction
RECURSIVE parseLines(_, _)
parseLines(lines, rules) ==
  IF lines = <<>> THEN rules
  ELSE
    LET lineTrimmed == trim(Head(lines))
        parts       == splitSpaces(lineTrimmed)
    IN  IF lineTrimmed = <<>> \/ startsWith(lineTrimmed, "#")
          THEN parseLines(Tail(lines), rules)
        ELSE IF Len(parts) < 2
          THEN parseLines(Tail(lines), rules)
        ELSE parseLines(Tail(lines),
               Override(MkRules({<<toLowerCase(parts[1]), lineCorrection(parts)>>}),
                        rules))

\* JSON.parse on the grammar of the inputs: objects, strings without escape
\* sequences, unsigned integers, true, false and null. A parse result is
\* [ok, next, val]: next is the index after the value, val is
\* <<"string", chars>>, <<"number">>, <<"literal">> or <<"object", entries>>.
JsonSpace == {" ", "\t", "\n", "\r"}

ControlChars == {"\t", "\n", "\r", "\f"}

SyntaxError == [ok |-> FALSE, next |-> 0, val |-> <<>>]

skipWs(s, i) ==
  CHOOSE j \in i..(Len(s) + 1) :
    /\ j = Len(s) + 1 \/ s[j] \notin JsonSpace
    /\ \A k \in i..(j - 1) : s[k] \in JsonSpace

parseString(s, i) ==
  IF i > Len(s) \/ s[i] # "\"" THEN SyntaxError
  ELSE
    LET Q == {j \in (i + 1)..Len(s) : s[j] = "\""}
    IN  IF Q = {} THEN SyntaxError
        ELSE
          LET j    == CHOOSE j \in Q : \A k \in Q : j <= k
              body == SubSeq(s, i + 1, j - 1)
          IN  IF \E k \in 1..Len(body) : body[k] \in ControlChars \cup {"\\"}
                THEN SyntaxError
              ELSE [ok |-> TRUE, next |-> j + 1, val |-> <<"string", body>>]

parseNumber(s, i) ==
  LET E == {j \in i..(Len(s) + 1) :
              /\ \A k \in i..(j - 1) : s[k] \in Digits
              /\ j = Len(s) + 1 \/ s[j] \notin Digits}
      j == IF s[i] = "0" THEN i + 1 ELSE CHOOSE j \in E : TRUE
  IN  [ok |-> TRUE, next |-> j, val |-> <<"number">>]

parseLiteral(s, i) ==
  LET Lits == {<<"t","r","u","e">>, <<"f","a","l","s","e">>, <<"n","u","l","l">>}
      M    == {l \in Lits : i + Len(l) - 1 <= Len(s) /\ SubSeq(s, i, i + Len(l) - 1) = l}
  IN  IF M = {} THEN SyntaxError
      ELSE [ok |-> TRUE, next |-> i + Len(CHOOSE l \in M : TRUE), val |-> <<"literal">>]

\* a member is stored under its key: a repeated key keeps its place and
\* takes the later value
objSet(entries, k, v) ==
  IF \E n \in 1..Len(entries) : entries[n][1] = k
    THEN [n \in 1..Len(entries) |->
            IF entries[n][1] = k THEN <<k, v>> ELSE entries[n]]
  ELSE Append(entries, <<k, v>>)

RECURSIVE parseValue(_, _), parseMembers(_, _, _)

parseObject(s, i) ==
  LET j == skipWs(s, i + 1)
  IN  IF j <= Len(s) /\ s[j] = "}"
        THEN [ok |-> TRUE, next |-> j + 1, val |-> <<"object", <<>> >>]
      ELSE parseMembers(s, j, <<>>)

parseMembers(s, i, entries) ==
  LET key == parseString(s, i)
  IN  IF ~key.ok THEN SyntaxError
      ELSE
        LET j == skipWs(s, key.next)
        IN  IF j > Len(s) \/ s[j] # ":" THEN SyntaxError
            ELSE
              LET v == parseValue(s, skipWs(s, j + 1))
              IN  IF ~v.ok THEN SyntaxError
                  ELSE
                    LET k    == skipWs(s, v.next)
                        more == objSet(entries, key.val[2], v.val)
                    IN  IF k > Len(s) THEN SyntaxError
                        ELSE IF s[k] = "," THEN parseMembers(s, skipWs(s, k + 1), more)
                        ELSE IF s[k] = "}"
                          THEN [ok |-> TRUE, next |-> k + 1, val |-> <<"object", more>>]
                        ELSE SyntaxError

parseValue(s, i) ==
  IF i > Len(s) THEN SyntaxError
  ELSE IF s[i] = "\"" THEN parseString(s, i)
  ELSE IF s[i] \in Digits THEN parseNumber(s, i)
  ELSE IF s[i] = "{" THEN parseObject(s, i)
  ELSE parseLiteral(s, i)

JSONparse(s) ==
  LET r == parseValue(s, skipWs(s, 1))
  IN  IF r.ok /\ skipWs(s, r.next) = Len(s) + 1 THEN r ELSE SyntaxError

\* lines 181-185: for (const [key, value] of Object.entries(parsed))
RECURSIVE entriesToRules(_, _)
entriesToRules(entries, rules) ==
  IF entries = <<>> THEN rules
  ELSE
    LET key   == Head(entries)[1]
        value == Head(entries)[2]
    IN  IF value[1] = "string"
          THEN entriesToRules(Tail(entries),
                 Override(MkRules({<<toLowerCase(key), toLowerCase(value[2])>>}),
                          rules))
        ELSE entriesToRules(Tail(entries), rules)

\* Mutant: a text that fails to parse as JSON yields no rules.
parseFallback_None(trimmed, rules) == rules

\* lines 193-203
parseFallback(trimmed, rules) == parseLines(splitLines(trimmed), rules)

parsePersonalRules(input) ==
  LET rules   == NoRules
      trimmed == trim(input)
  IN  IF trimmed = <<>> THEN rules
      ELSE IF startsWith(trimmed, "{") /\ endsWith(trimmed, "}")
                /\ JSONparse(trimmed).ok
                /\ JSONparse(trimmed).val[1] = "object"
        THEN entriesToRules(JSONparse(trimmed).val[2], rules)
      ELSE parseFallback(trimmed, rules)

---------------------------------------------------------------------------
(* rebuildRules: index.ts 63-74 *)

\* a value of type Rules | null is <<>> for null and <<table>> otherwise
orEmpty(r) == IF r = <<>> THEN NoRules ELSE r[1]

\* Mutant: the remote table is spread last.
allRules_RemoteLast(base, remoteRules, personal) ==
  Override(orEmpty(remoteRules), Override(personal, base))

\* line 68: { ...base, ...(remoteRules || {}), ...personal }
allRules(base, remoteRules, personal) ==
  Override(personal, Override(orEmpty(remoteRules), base))

\* Mutant: the entries are set on the existing Map.
newMap_InPlace(entries, old) == Override(entries, old)

\* line 69: cachedRules = new Map(Object.entries(allRules))
newMap(entries, old) == entries

\* the value rebuildRules assigns to cachedRules
rebuildRules(base, remoteRules, settingsText, old) ==
  newMap(allRules(base, remoteRules, parsePersonalRules(settingsText)), old)

\* Mutant: the listener never rebuilds.
needsRebuild_Never(newText, oldText, loaded) == FALSE

\* line 226: newText !== personalRulesText && baseLoaded
needsRebuild(newText, oldText, loaded) == newText # oldText /\ loaded

---------------------------------------------------------------------------
(* Each specification drives one part of the program; the variables of the
   other parts stay at rest. *)

EngineAtRest ==
  /\ text = <<>>
  /\ cursorPos = 0
  /\ cachedRules = NoRules
  /\ enabled = TRUE
  /\ lastCorrectedBlockUuid = NullUuid
  /\ lastCorrectedContentHash = NullHash
  /\ pc = "idle"
  /\ result = Null

TriggerAtRest ==
  /\ lastInput = <<>>
  /\ triggered = <<>>

NoDoc ==
  [kind |-> "none", entries |-> <<>>, style |-> "compact", pad |-> "none",
   defect |-> "none", lines |-> <<>>, newline |-> <<"\n">>]

ParseAtRest ==
  /\ doc = NoDoc
  /\ personalInput = <<>>
  /\ parsed = <<>>

RulesAtRest ==
  /\ settingsPersonalRules = <<>>
  /\ settingsRemoteCachedRules = <<>>
  /\ baseSafe = NoRules
  /\ remote = <<>>
  /\ baseLoaded = FALSE
  /\ personalRulesText = <<>>
  /\ loadedRemote = <<>>
  /\ dictionaryLoading = "pending"
  /\ refreshing = "pending"
  /\ builtFrom = <<>>
  /\ observed = <<>>

\* the three invocations a keystroke schedules: the keydown listener on the
\* editor element, the same listener on the document, and App.onKeyDown
DomHandlers == {"element", "document"}

Handlers == DomHandlers \cup {"onKeyDown"}

Idle == [pc |-> "idle", content |-> <<>>, pos |-> 0, seen |-> 0]

HostAtRest ==
  /\ handlers = [h \in Handlers |-> Idle]
  /\ updates = <<>>
  /\ version = 0
  /\ edits = 0

FilterAtRest ==
  /\ dictContent = <<>>
  /\ dictRules = <<>>

BuildAtRest ==
  /\ sourcesLeft = <<>>
  /\ dictionaries = <<>>
  /\ written = <<>>

\* src/unnamed/part_001 24: 60 * 60 * 1000
HOUR_MS == 60 * 60 * 1000

\* index.ts 184, 212: the default of checkIntervalHours
DEFAULT_INTERVAL_HOURS == 24

\* Date.now() when the first session starts: later than any interval
StartTime == 2 * DEFAULT_INTERVAL_HOURS * HOUR_MS

NoOpts == [enabled |-> FALSE, url |-> "", intervalHours |-> DEFAULT_INTERVAL_HOURS]

NoResponse == [status |-> 0, etag |-> "", body |-> "none"]

Pending == [kind |-> "pending", rules |-> NoRules, cause |-> "none"]

NothingStored == [cached |-> <<>>, etag |-> ""]

FetchAtRest ==
  /\ now = StartTime
  /\ remoteLastChecked = 0
  /\ remoteETag = ""
  /\ fetchPc = "idle"
  /\ opts = NoOpts
  /\ response = NoResponse
  /\ outcome = Pending
  /\ atCall = NothingStored
  /\ fetches = <<>>
  /\ calls = 0

\* getCursorPos() === null
NullPos == -1

NoAttempt ==
  [path |-> "none", pc |-> "none", editing |-> FALSE, content |-> <<>>, pos |-> 0,
   block |-> NullUuid, replaced |-> Null, end |-> "none", enabledAtCall |-> TRUE,
   afterFailure |-> FALSE]

PathsAtRest ==
  /\ attempt = NoAttempt
  /\ scheduled = {}
  /\ lastContent = <<>>
  /\ lastBlockUuid = NullUuid

\* index.ts 707: let pollIntervalMs = 3000
IDLE_POLL_MS == 3000

\* index.ts 721: pollIntervalMs = 500
FAST_POLL_MS == 500

PollAtRest ==
  /\ pollIntervalMs = IDLE_POLL_MS
  /\ consecutiveIdlePolls = 0
  /\ reports = <<>>

Blocks == {"b1", "b2"}

NoReader ==
  [path |-> "none", pc |-> "idle", content |-> <<>>, readFrom |-> NullUuid, pos |-> 0]

BlocksAtRest ==
  /\ editingUuid = "b1"
  /\ contents = [b \in Blocks |-> <<>>]
  /\ reader = NoReader

SafeAtRest ==
  /\ pair = <<>>
  /\ verdicts = <<>>

MoreAtRest ==
  /\ PollAtRest
  /\ BlocksAtRest
  /\ SafeAtRest

LaterAtRest ==
  /\ FilterAtRest
  /\ BuildAtRest
  /\ FetchAtRest
  /\ PathsAtRest
  /\ MoreAtRest

notEngine == <<triggerVars, parseVars, rulesVars, hostVars, laterVars>>

\* Inputs of shouldTrigger: every boundary character and some others, last.
MaxInputLen == 2

InputChars ==
  BoundaryChars \cup {"a", "Z", "7", "-", "_", "/", BACKTICK}

Inputs == UNION { [1..n -> InputChars] : n \in 0..1 }

---------------------------------------------------------------------------
(* The engine's state machine *)

Init ==
  /\ text \in Texts
  /\ cursorPos \in 0..Len(text)
  /\ cachedRules \in RuleTables
  /\ enabled \in BOOLEAN
  /\ lastCorrectedBlockUuid = NullUuid
  /\ lastCorrectedContentHash = NullHash
  /\ pc = "idle"
  /\ result = Null
  /\ TriggerAtRest
  /\ ParseAtRest
  /\ RulesAtRest
  /\ HostAtRest
  /\ LaterAtRest

\* the user moves the cursor
MoveCursor(p) ==
  /\ p \in {cursorPos - 1, cursorPos + 1}
  /\ cursorPos' = p
  /\ pc' = "idle"
  /\ result' = Null
  /\ UNCHANGED <<text, cachedRules, enabled, lastCorrectedBlockUuid,
                 lastCorrectedContentHash, notEngine>>

\* the user switches the plugin on or off in the settings
SetEnabled(b) ==
  /\ b # enabled
  /\ enabled' = b
  /\ pc' = "idle"
  /\ result' = Null
  /\ UNCHANGED <<text, cursorPos, cachedRules, lastCorrectedBlockUuid,
                 lastCorrectedContentHash, notEngine>>

\* replaceWordBeforeCursor(content, pos, cachedRules) at the cursor
CallReplace ==
  /\ pc' = "replaced"
  /\ result' = replaceWordBeforeCursor(text, cursorPos, cachedRules)
  /\ UNCHANGED <<text, cursorPos, cachedRules, enabled, lastCorrectedBlockUuid,
                 lastCorrectedContentHash, notEngine>>

\* processAutocorrect(content, pos, block.uuid) at the cursor
CallProcess ==
  /\ pc' = "processed"
  /\ result' = processAutocorrect(text, cursorPos, CurrentBlock)
  /\ UNCHANGED <<text, cursorPos, cachedRules, enabled, lastCorrectedBlockUuid,
                 lastCorrectedContentHash, notEngine>>

\* handleDOMKeyDown after a replacement was found: markCorrection, updateBlock.
\* Where the host leaves the cursor after updateBlock is the host's choice.
ApplyCorrection ==
  /\ pc = "processed"
  /\ result.ok
  /\ lastCorrectedBlockUuid' = CurrentBlock
  /\ lastCorrectedContentHash' = hashContent(result.newText)
  /\ text' = result.newText
  /\ cursorPos' \in 0..Len(result.newText)
  /\ pc' = "idle"
  /\ result' = Null
  /\ UNCHANGED <<cachedRules, enabled, notEngine>>

Next ==
  \/ \E p \in 0..Len(text) : MoveCursor(p)
  \/ \E b \in BOOLEAN : SetEnabled(b)
  \/ CallReplace
  \/ CallProcess
  \/ ApplyCorrection

Spec == Init /\ [][Next]_vars

---------------------------------------------------------------------------
(* The trigger detector: shouldTrigger on its own *)

TriggerInit ==
  /\ lastInput \in Inputs
  /\ triggered = <<>>
  /\ EngineAtRest
  /\ ParseAtRest
  /\ RulesAtRest
  /\ HostAtRest
  /\ LaterAtRest

\* shouldTrigger(lastInput)
CallShouldTrigger ==
  /\ triggered = <<>>
  /\ triggered' = <<shouldTrigger(lastInput)>>
  /\ UNCHANGED <<lastInput, engineVars, parseVars, rulesVars, hostVars, laterVars>>

\* the next keystroke: the input grows by one character
NextInput(c) ==
  /\ Len(lastInput) < MaxInputLen
  /\ lastInput' = Append(lastInput, c)
  /\ triggered' = <<>>
  /\ UNCHANGED <<engineVars, parseVars, rulesVars, hostVars, laterVars>>

TriggerNext ==
  \/ CallShouldTrigger
  \/ \E c \in InputChars : NextInput(c)

SpecTrigger == TriggerInit /\ [][TriggerNext]_vars

---------------------------------------------------------------------------
(* The personal rules parser on its own: the setting's text is written in
   the JSON format (README.md 127-135), in the line-based format
   (README.md 137-144), or in the JSON format with a syntax error. *)

MaxEntries == 2

MaxLines == 2

DocKeys == { <<"t","e","h">>, <<"T","e","h">>, <<"a","d","n">> }

DocValues ==
  { <<"string", <<"t","h","e">> >>, <<"string", <<"T","h","e">> >>,
    <<"number", <<"1">> >> }

DocEntries ==
  UNION { [1..n -> DocKeys \X DocValues] : n \in 0..MaxEntries }

JsonDocs ==
  { d \in [kind : {"json"}, entries : DocEntries, style : {"compact", "pretty"},
           pad : {"none", "spaces"}, defect : {"none", "comma", "unquoted"},
           lines : {<<>>}, newline : {<<"\n">>}] :
      d.defect = "unquoted" => d.entries # <<>> }

DocLines ==
  [kind : {"rule"}, indent : {<<>>, <<" ", " ">>},
   typo : {<<"t","e","h">>, <<"T","e","h">>}, sep : {<<" ">>, <<"\t", " ">>},
   words : { << <<"t","h","e">> >>, << <<"T","h","e">>, <<"E","n","d">> >> },
   wordSep : {<<" ">>, <<" ", " ">>}]
  \cup
  [kind : {"comment", "blank", "single"}, indent : {<<>>, <<" ", " ">>},
   typo : {<<"t","e","h">>}, sep : {<<" ">>},
   words : { << <<"t","h","e">> >> }, wordSep : {<<" ">>}]

LineDocs ==
  [kind : {"lines"}, entries : {<<>>}, style : {"compact"}, pad : {"none"},
   defect : {"none"},
   lines : UNION { [1..n -> DocLines] : n \in 1..MaxLines },
   newline : {<<"\n">>, <<"\r", "\n">>}]

Docs == JsonDocs \cup LineDocs

Quote == <<"\"">>

renderKey(d, key) == IF d.defect = "unquoted" THEN key ELSE Quote \o key \o Quote

renderValue(value) ==
  IF value[1] = "string" THEN Quote \o value[2] \o Quote ELSE value[2]

renderMember(d, e) ==
  (IF d.style = "pretty" THEN <<" ", " ">> ELSE <<>>)
    \o renderKey(d, e[1])
    \o (IF d.style = "pretty" THEN <<":", " ">> ELSE <<":">>)
    \o renderValue(e[2])

renderJson(d) ==
  LET nl      == IF d.style = "pretty" THEN <<"\n">> ELSE <<>>
      members == [n \in 1..Len(d.entries) |-> renderMember(d, d.entries[n])]
      body    == <<"{">> \o nl \o join(members, <<",">> \o nl)
                   \o (IF d.defect = "comma" THEN <<",">> ELSE <<>>)
                   \o nl \o <<"}">>
  IN  IF d.pad = "spaces" THEN <<" ", "\n">> \o body \o <<"\n", " ">> ELSE body

renderLine(l) ==
  l.indent \o
    (CASE l.kind = "rule"    -> l.typo \o l.sep \o join(l.words, l.wordSep)
       [] l.kind = "comment" -> <<"#">> \o l.typo \o l.sep \o join(l.words, l.wordSep)
       [] l.kind = "single"  -> l.typo
       [] l.kind = "blank"   -> <<>>)

render(d) ==
  IF d.kind = "json" THEN renderJson(d)
  ELSE join([n \in 1..Len(d.lines) |-> renderLine(d.lines[n])], d.newline)

ParseInit ==
  /\ doc \in Docs
  /\ personalInput = render(doc)
  /\ parsed = <<>>
  /\ EngineAtRest
  /\ TriggerAtRest
  /\ RulesAtRest
  /\ HostAtRest
  /\ LaterAtRest

\* parsePersonalRules(personalInput)
CallParsePersonalRules ==
  /\ parsed = <<>>
  /\ parsed' = <<parsePersonalRules(personalInput)>>
  /\ UNCHANGED <<doc, personalInput, engineVars, triggerVars, rulesVars, hostVars,
               laterVars>>

ParseNext == CallParsePersonalRules

SpecParse == ParseInit /\ [][ParseNext]_vars

---------------------------------------------------------------------------
(* Startup, remote refresh, settings changes and the reload command:
   index.ts 190-230 and 759-773 *)

\* the bundled dictionary, as the dictionary filter produced it
BaseTable ==
  MkRules({
    << <<"t","e","h">>, <<"t","h","e">> >>,
    << <<"a","d","n">>, <<"a","n","d">> >>,
    << <<"w","i","e","r","d">>, <<"w","e","i","r","d">> >>
  })

\* loadDictionarySync: the dictionary, or an empty table when require fails
LoadedBases == { BaseTable, NoRules }

\* settings.remoteCachedRules left by an earlier session
OldRemote ==
  MkRules({
    << <<"t","e","h">>, <<"t","e","a">> >>,
    << <<"r","e","c","i","e","v","e">>, <<"r","e","c","e","i","v","e">> >>
  })

\* the table a successful fetch returns
NewRemote ==
  MkRules({
    << <<"t","e","h">>, <<"t","e","e">> >>,
    << <<"a","d","n">>, <<"a","d","d">> >>,
    << <<"f","r","e","i","n","d">>, <<"f","r","i","e","n","d">> >>
  })

PersonalLines == <<"t","e","h"," ","t","e","n","\n","c","o","l","o","u","r"," ","c","o","l","o","r">>

PersonalJson == <<"{","\"","W","i","e","r","d","\"",":","\"","W","i","r","e","d","\"",",","\"","m","i","n","e","\"",":","\"","m","y"," ","o","w","n","\"","}">>

PersonalTexts == { <<>>, PersonalLines, PersonalJson }

LookupWords ==
  { <<"t","e","h">>, <<"c","o","l","o","u","r">>, <<"w","i","e","r","d">>, <<"f","r","e","i","n","d">>, <<"r","e","c","i","e","v","e">> }

RulesInit ==
  /\ settingsPersonalRules \in PersonalTexts
  /\ settingsRemoteCachedRules \in { <<>>, <<OldRemote>> }
  /\ baseSafe = NoRules
  /\ remote = <<>>
  /\ baseLoaded = FALSE
  /\ personalRulesText = <<>>
  /\ cachedRules = NoRules
  /\ loadedRemote = settingsRemoteCachedRules
  /\ dictionaryLoading = "pending"
  /\ refreshing = "pending"
  /\ builtFrom = <<>>
  /\ observed = <<>>
  /\ text = <<>>
  /\ cursorPos = 0
  /\ enabled = TRUE
  /\ lastCorrectedBlockUuid = NullUuid
  /\ lastCorrectedContentHash = NullHash
  /\ pc = "idle"
  /\ result = Null
  /\ TriggerAtRest
  /\ ParseAtRest
  /\ HostAtRest
  /\ LaterAtRest

\* what the startup and settings callbacks leave alone
notRebuild ==
  <<text, cursorPos, enabled, lastCorrectedBlockUuid, lastCorrectedContentHash,
    pc, result, triggerVars, parseVars, hostVars, laterVars>>

\* a call rebuildRules(base, remoteRules)
Rebuild(base, remoteRules, settingsText) ==
  /\ cachedRules' = rebuildRules(base, remoteRules, settingsText, cachedRules)
  /\ personalRulesText' = settingsText
  /\ builtFrom' = <<[base |-> base, remote |-> remoteRules, text |-> settingsText]>>

\* lines 195-205: Promise.all([loadDictionary(), loadCachedRemoteRules()]).then
DictionaryLoaded(loadedBase) ==
  /\ dictionaryLoading = "pending"
  /\ dictionaryLoading' = "done"
  /\ baseSafe' = loadedBase
  /\ remote' = loadedRemote
  /\ baseLoaded' = TRUE
  /\ Rebuild(loadedBase, loadedRemote, settingsPersonalRules)
  /\ UNCHANGED <<settingsPersonalRules, settingsRemoteCachedRules, loadedRemote,
                 refreshing, observed, notRebuild>>

\* lines 209-220 with maybeRefreshRemoteRules returning null
RefreshNone ==
  /\ refreshing = "pending"
  /\ refreshing' = "none"
  /\ UNCHANGED <<cachedRules, settingsPersonalRules, settingsRemoteCachedRules,
                 baseSafe, remote, baseLoaded, personalRulesText, loadedRemote,
                 dictionaryLoading, builtFrom, observed, notRebuild>>

\* lines 209-220 with maybeRefreshRemoteRules storing and returning a table
RefreshDone(refreshed) ==
  /\ refreshing = "pending"
  /\ refreshing' = "refreshed"
  /\ settingsRemoteCachedRules' = <<refreshed>>
  /\ remote' = <<refreshed>>
  /\ IF baseLoaded
       THEN Rebuild(baseSafe, <<refreshed>>, settingsPersonalRules)
       ELSE UNCHANGED <<cachedRules, personalRulesText, builtFrom>>
  /\ UNCHANGED <<settingsPersonalRules, baseSafe, baseLoaded, loadedRemote,
                 dictionaryLoading, observed, notRebuild>>

\* lines 223-229: the host stores the new settings and calls the listener
OnSettingsChanged(newText) ==
  /\ newText # settingsPersonalRules
  /\ settingsPersonalRules' = newText
  /\ IF needsRebuild(newText, personalRulesText, baseLoaded)
       THEN Rebuild(baseSafe, remote, newText)
       ELSE UNCHANGED <<cachedRules, personalRulesText, builtFrom>>
  /\ UNCHANGED <<settingsRemoteCachedRules, baseSafe, remote, baseLoaded,
                 loadedRemote, dictionaryLoading, refreshing, observed, notRebuild>>

\* lines 762-772: "Autocorrect: Reload rules" once the dictionary has loaded;
\* loadDictionary resolves to the table loaded at startup
ReloadRules ==
  /\ dictionaryLoading = "done"
  /\ remote' = settingsRemoteCachedRules
  /\ baseLoaded' = TRUE
  /\ Rebuild(baseSafe, settingsRemoteCachedRules, settingsPersonalRules)
  /\ UNCHANGED <<settingsPersonalRules, settingsRemoteCachedRules, baseSafe,
                 loadedRemote, dictionaryLoading, refreshing, observed, notRebuild>>

\* a handler passes cachedRules to replaceWordBeforeCursor
Lookup(word) ==
  /\ observed' = <<cachedRules>>
  /\ text' = word
  /\ cursorPos' = Len(word)
  /\ result' = replaceWordBeforeCursor(word, Len(word), cachedRules)
  /\ pc' = "replaced"
  /\ UNCHANGED <<cachedRules, settingsPersonalRules, settingsRemoteCachedRules,
                 baseSafe, remote, baseLoaded, personalRulesText, loadedRemote,
                 dictionaryLoading, refreshing, builtFrom, enabled,
                 lastCorrectedBlockUuid, lastCorrectedContentHash,
                 triggerVars, parseVars, hostVars, laterVars>>

RulesNext ==
  \/ \E b \in LoadedBases : DictionaryLoaded(b)
  \/ RefreshNone
  \/ RefreshDone(NewRemote)
  \/ \E t \in PersonalTexts : OnSettingsChanged(t)
  \/ ReloadRules
  \/ \E w \in LookupWords : Lookup(w)

SpecRules == RulesInit /\ [][RulesNext]_vars

---------------------------------------------------------------------------
(* The keydown handlers between their awaits: index.ts 331-353, 419-483 and
   551-595. A handler that has been scheduled reads the content, then the
   cursor, then finds the replacement, marks it and calls updateBlock. *)

MaxEdits == 2

\* what the user types, up to and including a trigger character, and where
\* that leaves the cursor
MidTeh == <<"0","1","2","3","4","5","6","7","8","9"," ","t","e","h"," ","0","1","2","3","4","5","6","7","8","9">>

MidAdn == <<"0","1","2","3","4","5","6","7","8","9"," ","a","d","n"," ","0","1","2","3","4","5","6","7","8","9">>

EndAdn == <<"t","h","e"," ","a","d","n"," ">>

Typed == { <<MidTeh, 15>>, <<MidAdn, 15>>, <<EndAdn, 8>> }

\* lines 562-583: the App.onKeyDown callback has no suppression check
onKeyDownReplace(content, pos) ==
  IF pos = 0 THEN Null
  ELSE IF ~shouldTrigger(charAt(content, pos - 1)) THEN Null
  ELSE
    LET replaced == replaceWordBeforeCursor(content, pos - 1, cachedRules)
    IN  IF ~replaced.ok \/ replaced.newText = <<>> THEN Null ELSE replaced

\* the replacement handler h finds for what it has read
replacedBy(h) ==
  IF h \in DomHandlers
    THEN processAutocorrect(handlers[h].content, handlers[h].pos, CurrentBlock)
    ELSE onKeyDownReplace(handlers[h].content, handlers[h].pos)

HostInit ==
  /\ text = <<>>
  /\ cursorPos = 0
  /\ cachedRules = SafeRules
  /\ enabled = TRUE
  /\ lastCorrectedBlockUuid = NullUuid
  /\ lastCorrectedContentHash = NullHash
  /\ pc = "idle"
  /\ result = Null
  /\ HostAtRest
  /\ TriggerAtRest
  /\ ParseAtRest
  /\ RulesAtRest
  /\ LaterAtRest

notHost ==
  <<cachedRules, enabled, pc, result, triggerVars, parseVars, rulesVars, laterVars>>

\* the user types; every handler that is not running is scheduled
\* (setTimeout, lines 350-352 and 559)
UserTypes(t, p) ==
  /\ edits < MaxEdits
  /\ t # text
  /\ text' = t
  /\ cursorPos' = p
  /\ version' = version + 1
  /\ edits' = edits + 1
  /\ handlers' = [h \in Handlers |->
                    IF handlers[h].pc = "idle"
                      THEN [Idle EXCEPT !.pc = "scheduled"]
                      ELSE handlers[h]]
  /\ UNCHANGED <<updates, lastCorrectedBlockUuid, lastCorrectedContentHash, notHost>>

\* lines 434 and 564: await logseq.Editor.getEditingBlockContent()
ReadContent(h) ==
  /\ handlers[h].pc = "scheduled"
  /\ text # <<>>
  /\ handlers' = [handlers EXCEPT ![h] =
                    [pc |-> "hasContent", content |-> text, pos |-> 0, seen |-> version]]
  /\ UNCHANGED <<text, cursorPos, updates, version, edits,
                 lastCorrectedBlockUuid, lastCorrectedContentHash, notHost>>

\* lines 440 and 569: await getCursorPos()
ReadCursor(h) ==
  /\ handlers[h].pc = "hasContent"
  /\ handlers' = [handlers EXCEPT ![h].pc = "hasCursor", ![h].pos = cursorPos]
  /\ UNCHANGED <<text, cursorPos, updates, version, edits,
                 lastCorrectedBlockUuid, lastCorrectedContentHash, notHost>>

\* lines 453-457 and 582-583: no replacement, the handler returns
NoCorrection(h) ==
  /\ handlers[h].pc = "hasCursor"
  /\ ~replacedBy(h).ok
  /\ handlers' = [handlers EXCEPT ![h] = Idle]
  /\ UNCHANGED <<text, cursorPos, updates, version, edits,
                 lastCorrectedBlockUuid, lastCorrectedContentHash, notHost>>

\* lines 470-471 and 586-587: markCorrection, then updateBlock; the cursor
\* stays behind the character it was behind
Correct(h) ==
  /\ handlers[h].pc = "hasCursor"
  /\ replacedBy(h).ok
  /\ lastCorrectedBlockUuid' = CurrentBlock
  /\ lastCorrectedContentHash' = hashContent(replacedBy(h).newText)
  /\ updates' = Append(updates,
                  [seen |-> handlers[h].seen,
                   content |-> handlers[h].content,
                   newText |-> replacedBy(h).newText])
  /\ text' = replacedBy(h).newText
  /\ cursorPos' = Min(replacedBy(h).newCursorPos + 1, Len(replacedBy(h).newText))
  /\ version' = version + 1
  /\ handlers' = [handlers EXCEPT ![h] = Idle]
  /\ UNCHANGED <<edits, notHost>>

HostNext ==
  \/ \E tp \in Typed : UserTypes(tp[1], tp[2])
  \/ \E h \in Handlers : ReadContent(h)
  \/ \E h \in Handlers : ReadCursor(h)
  \/ \E h \in Handlers : NoCorrection(h)
  \/ \E h \in Handlers : Correct(h)

SpecHost == HostInit /\ [][HostNext]_vars

---------------------------------------------------------------------------
(* scripts/build-dict.ts: the dictionary filter.  The script declares the
   same UK_ENGLISH_WORDS, AMBIGUOUS_WORDS, SAFE_SHORT_TYPOS and
   MIN_SAFE_LENGTH as autocorrect.ts (lines 18-75). *)

\* s.split(',')
RECURSIVE splitComma(_)
splitComma(s) ==
  LET C == {i \in 1..Len(s) : s[i] = ","}
  IN  IF C = {} THEN <<s>>
      ELSE LET i == CHOOSE i \in C : \A j \in C : i <= j
           IN  <<SubSeq(s, 1, i - 1)>> \o splitComma(SubSeq(s, i + 1, Len(s)))

\* characters that . of a regular expression does not match
LineTerminators == {"\n", "\r"}

\* trimmed.match(/^(.+?)->(.+)$/): <<>> for null, or <<group 1, group 2>>.
\* The lazy first group ends at the first "->" that leaves both groups
\* non-empty.
matchArrow(trimmed) ==
  LET A == {i \in 2..(Len(trimmed) - 2) : trimmed[i] = "-" /\ trimmed[i + 1] = ">"}
  IN  IF A = {} \/ \E i \in 1..Len(trimmed) : trimmed[i] \in LineTerminators
      THEN <<>>
      ELSE LET i == CHOOSE i \in A : \A j \in A : i <= j
           IN  <<SubSeq(trimmed, 1, i - 1), SubSeq(trimmed, i + 2, Len(trimmed))>>

\* Mutant: only blank lines are skipped, a comment line is parsed.
skipLine_BlankOnly(trimmed) == trimmed = <<>>

\* line 110: !trimmed || trimmed.startsWith('#')
skipLine(trimmed) == trimmed = <<>> \/ startsWith(trimmed, "#")

\* let correction: string | null = null
nullCorrection == <<"null">>

\* !correction : null and "" are falsy
noCorrection(correction) == correction = nullCorrection \/ correction = <<>>

\* Mutant: the first candidate is taken, the preferred dialect is not looked for.
RECURSIVE chooseCorrection_First(_, _)
chooseCorrection_First(corrections, correction) ==
  IF corrections = <<>> THEN correction
  ELSE chooseCorrection_First(Tail(corrections),
         IF noCorrection(correction) THEN toLowerCase(corrections[1]) ELSE correction)

\* lines 123-135: the loop over the candidates
RECURSIVE chooseCorrection(_, _)
chooseCorrection(corrections, correction) ==
  IF corrections = <<>> THEN correction
  ELSE LET corrLower == toLowerCase(corrections[1])
       IN  IF corrLower \in UK_ENGLISH_WORDS THEN corrLower
           ELSE chooseCorrection(Tail(corrections),
                  IF noCorrection(correction) THEN corrLower ELSE correction)

\* Mutant: a short typo is kept whatever its correction.
isSafeToInclude_AnyLength(typo, correction) ==
  IF typo \in UK_ENGLISH_WORDS THEN FALSE
  ELSE IF typo \in AMBIGUOUS_WORDS THEN FALSE
  ELSE IF correction \in AMBIGUOUS_WORDS THEN FALSE
  ELSE TRUE

\* lines 156-180; both branches of lines 173-179 return true
isSafeToInclude(typo, correction) ==
  IF typo \in UK_ENGLISH_WORDS THEN FALSE
  ELSE IF typo \in AMBIGUOUS_WORDS THEN FALSE
  ELSE IF correction \in AMBIGUOUS_WORDS THEN FALSE
  ELSE IF rulesGet(SAFE_SHORT_TYPOS, typo) = correction THEN TRUE
  ELSE IF Len(typo) < MIN_SAFE_LENGTH THEN FALSE
  ELSE TRUE

\* line 116: match[1].trim().toLowerCase()
lineTypo(m) == toLowerCase(trim(m[1]))

\* line 117: match[2].split(',').map(c => c.trim())
lineCorrections(m) ==
  LET parts == splitComma(m[2])
  IN  [i \in 1..Len(parts) |-> trim(parts[i])]

\* lines 109-147: the body of the loop, for one line
parseDictLine(rules, line) ==
  LET trimmed == trim(line)
  IN  IF skipLine(trimmed) THEN rules
      ELSE LET m == matchArrow(trimmed)
           IN  IF m = <<>> THEN rules
               ELSE LET typo == lineTypo(m)
                        correction == chooseCorrection(lineCorrections(m), nullCorrection)
                    IN  IF typo \in UK_ENGLISH_WORDS THEN rules
                        ELSE IF noCorrection(correction) \/ correction = typo THEN rules
                        ELSE IF typo \in UK_ENGLISH_WORDS
                                /\ correction \notin UK_ENGLISH_WORDS THEN rules
                        ELSE IF isSafeToInclude(typo, correction)
                             THEN Override(MkRules({<<typo, correction>>}), rules)
                             ELSE rules

\* lines 107-148: for (const line of lines)
RECURSIVE parseDictLines(_, _)
parseDictLines(rules, lines) ==
  IF lines = <<>> THEN rules
  ELSE parseDictLines(parseDictLine(rules, lines[1]), Tail(lines))

\* lines 103-151
parseCodespellDictionary(content) == parseDictLines(NoRules, splitLines(content))

\* lines 185-191: Object.assign(merged, dict) for each dict in turn
RECURSIVE assignAll(_, _)
assignAll(merged, dicts) ==
  IF dicts = <<>> THEN merged
  ELSE assignAll(Override(dicts[1], merged), Tail(dicts))

mergeDictionaries(dicts) == assignAll(NoRules, dicts)

---------------------------------------------------------------------------
(* The filter applied to one source *)

MaxDictLines == 2

\* lines of a codespell source: rules with one and with several candidates,
\* rules the filter must drop, comments, blank and malformed lines
DictLines ==
  {
    <<"r","e","c","i","e","v","e","-",">","r","e","c","e","i","v","e">>,
    <<"r","e","c","i","e","v","e","-",">","r","e","c","i","e","v","e","d">>,
    <<" "," ","W","i","e","r","d"," ","-",">"," ","W","e","i","r","d",","," ","w","i","r","e","d",",">>,
    <<"c","o","l","o","u","r","-",">","c","o","l","o","r">>,
    <<"c","o","l","o","r","-",">","c","o","l","o","u","r">>,
    <<"o","r","g","a","n","i","z","e","-",">","o","r","g","a","n","i","c",","," ","o","r","g","a","n","i","s","e",",">>,
    <<"t","e","h","-",">","t","h","e">>,
    <<"t","e","h","-",">","t","e","a">>,
    <<"t","h","i","e","r","-",">","t","h","e","i","r">>,
    <<"t","h","e","i","r","-",">","t","h","i","e","r">>,
    <<"e","q","u","a","l","-",">","e","q","u","a","l">>,
    <<"u","n","t","i","l","l","-",">",","," ","u","n","t","i","l">>,
    <<"#"," ","r","e","c","i","e","v","e","-",">","r","e","c","e","i","v","e">>,
    <<" "," ">>,
    <<"n","o"," ","a","r","r","o","w">>,
    <<"-",">","r","e","c","e","i","v","e">>,
    <<"r","e","c","i","e","v","e","-",">">>,
    <<"r","e","c","i","e","v","e","-",">",",">>
  }

NewLines == { <<"\n">>, <<"\r", "\n">> }

DictDocs(lines, newlines) ==
  { join(d, nl) : d \in UNION { [1..n -> lines] : n \in 0..MaxDictLines },
                  nl \in newlines }

FilterInit ==
  /\ dictContent \in DictDocs(DictLines, NewLines)
  /\ dictRules = <<>>
  /\ BuildAtRest
  /\ FetchAtRest
  /\ PathsAtRest
  /\ MoreAtRest
  /\ EngineAtRest
  /\ TriggerAtRest
  /\ ParseAtRest
  /\ RulesAtRest
  /\ HostAtRest

CallParseCodespellDictionary ==
  /\ dictRules = <<>>
  /\ dictRules' = <<parseCodespellDictionary(dictContent)>>
  /\ UNCHANGED <<dictContent, buildVars, fetchVars, pathVars, moreVars, engineVars,
                 triggerVars, parseVars, rulesVars, hostVars>>

FilterNext == CallParseCodespellDictionary

SpecFilter == FilterInit /\ [][FilterNext]_vars

---------------------------------------------------------------------------
(* build-dict.ts main: the sources are read in turn, the tables merged *)

\* lines 202-205 and 220-223
Sources == <<"dictionary.txt", "uk.txt", "codespell.txt", "codespell-uk.txt">>

BuildLines ==
  {
    <<"r","e","c","i","e","v","e","-",">","r","e","c","e","i","v","e">>,
    <<"r","e","c","i","e","v","e","-",">","r","e","c","i","e","v","e","d">>,
    <<"w","o","u","d","l","-",">","w","o","u","n","d">>,
    <<"t","e","h","-",">","t","e","a">>
  }

BuildInit ==
  /\ sourcesLeft = Sources
  /\ dictionaries = <<>>
  /\ written = <<>>
  /\ FilterAtRest
  /\ FetchAtRest
  /\ PathsAtRest
  /\ MoreAtRest
  /\ EngineAtRest
  /\ TriggerAtRest
  /\ ParseAtRest
  /\ RulesAtRest
  /\ HostAtRest

notBuild ==
  <<filterVars, fetchVars, pathVars, moreVars, engineVars, triggerVars, parseVars, rulesVars,
    hostVars>>

\* lines 210-213, 229-232: the source is obtained, parsed and pushed
ReadSource(content) ==
  /\ sourcesLeft # <<>>
  /\ dictionaries' = Append(dictionaries, parseCodespellDictionary(content))
  /\ sourcesLeft' = Tail(sourcesLeft)
  /\ UNCHANGED <<written, notBuild>>

\* lines 214-216, 226, 233-235: the download or the read fails, or the
\* local file does not exist
SourceUnavailable ==
  /\ sourcesLeft # <<>>
  /\ sourcesLeft' = Tail(sourcesLeft)
  /\ UNCHANGED <<dictionaries, written, notBuild>>

\* lines 239-256: the exception list is pushed last, the tables are merged
\* and the result is written (sorting the keys does not change the table)
WriteBaseSafe ==
  /\ sourcesLeft = <<>>
  /\ written = <<>>
  /\ written' = <<mergeDictionaries(Append(dictionaries, SAFE_SHORT_TYPOS))>>
  /\ UNCHANGED <<sourcesLeft, dictionaries, notBuild>>

BuildNext ==
  \/ \E content \in DictDocs(BuildLines, {<<"\n">>}) : ReadSource(content)
  \/ SourceUnavailable
  \/ WriteBaseSafe

SpecBuild == BuildInit /\ [][BuildNext]_vars

---------------------------------------------------------------------------
(* src/unnamed/part_001 (remote.ts): maybeRefreshRemoteRules, called once per
   session from index.ts 209-213.  Time is Date.now() in milliseconds. *)

\* index.ts 212: Number(logseq.settings?.checkIntervalHours || 24)
intervalHoursOf(setting) == IF setting = 0 THEN DEFAULT_INTERVAL_HOURS ELSE setting

\* line 24
intervalMs(intervalHours) == Max(1, intervalHours) * HOUR_MS

\* line 21: !opts.enabled || !opts.url
notConfigured(o) == ~o.enabled \/ o.url = ""

\* Mutant: the time of the last check is not looked at.
tooSoon_Never(t, last, intervalHours) == FALSE

\* line 25: Date.now() - last < intervalMs
tooSoon(t, last, intervalHours) == t - last < intervalMs(intervalHours)

\* res.ok
ok(status) == status >= 200 /\ status <= 299

\* return null at lines 21, 25, 35, 36, and return rules at line 47 when the
\* body is the JSON literal null
returnNull(cause) == [kind |-> "null", rules |-> NoRules, cause |-> cause]

\* Mutant: the catch clause throws again.
catchResult_Rethrow(cause) == [kind |-> "rejected", rules |-> NoRules, cause |-> cause]

\* lines 48-50: catch { return null; }
catchResult(cause) == returnNull(cause)

\* Mutant: a response without an ETag header leaves the stored ETag alone.
newEtag_KeepOld(res) == IF res.etag = "" THEN remoteETag ELSE res.etag

\* line 38: res.headers.get("ETag") || ""
newEtag(res) == res.etag

\* line 47
returnRules(rules) == [kind |-> "rules", rules |-> rules, cause |-> "stored"]

---------------------------------------------------------------------------
(* Sessions that call maybeRefreshRemoteRules *)

MaxCalls == 2

MaxTicks == 2

RemoteUrl == "https://example.org/rules.json"

\* values of the setting checkIntervalHours; 0 stands for unset
IntervalSettings == {-1, 0, 2}

Options ==
  [enabled : BOOLEAN, url : {"", RemoteUrl},
   intervalHours : {intervalHoursOf(h) : h \in IntervalSettings}]

\* what the server may answer: a table, text that is not JSON, the JSON
\* literal null, or a body whose transfer breaks off; 304; an error status
Responses ==
  [status : {200}, etag : {"", "v2"}, body : {"rules", "malformed", "null", "aborted"}]
    \cup {[status |-> 304, etag |-> "", body |-> "none"],
          [status |-> 404, etag |-> "", body |-> "none"]}

\* the settings as an earlier session may have left them: nothing stored, or
\* a table stored 1 or 23 hours before this session starts
StoredBefore ==
  {[last |-> 0, etag |-> "", cached |-> <<>>]}
    \cup {[last |-> StartTime - h * HOUR_MS, etag |-> "v1", cached |-> <<OldRemote>>] :
            h \in {1, DEFAULT_INTERVAL_HOURS - 1}}

rulesOther ==
  <<settingsPersonalRules, baseSafe, remote, baseLoaded, personalRulesText,
    loadedRemote, dictionaryLoading, refreshing, builtFrom, observed>>

FetchInit ==
  /\ now = StartTime
  /\ \E st \in StoredBefore :
       /\ remoteLastChecked = st.last
       /\ remoteETag = st.etag
       /\ settingsRemoteCachedRules = st.cached
  /\ fetchPc = "idle"
  /\ opts = NoOpts
  /\ response = NoResponse
  /\ outcome = Pending
  /\ atCall = NothingStored
  /\ fetches = <<>>
  /\ calls = 0
  /\ settingsPersonalRules = <<>>
  /\ baseSafe = NoRules
  /\ remote = <<>>
  /\ baseLoaded = FALSE
  /\ personalRulesText = <<>>
  /\ loadedRemote = <<>>
  /\ dictionaryLoading = "pending"
  /\ refreshing = "pending"
  /\ builtFrom = <<>>
  /\ observed = <<>>
  /\ FilterAtRest
  /\ BuildAtRest
  /\ PathsAtRest
  /\ MoreAtRest
  /\ EngineAtRest
  /\ TriggerAtRest
  /\ ParseAtRest
  /\ HostAtRest

notFetch ==
  <<rulesOther, filterVars, buildVars, pathVars, moreVars, engineVars, triggerVars, parseVars,
    hostVars>>

\* time passes
Tick ==
  /\ now < StartTime + MaxTicks * HOUR_MS
  /\ now' = now + HOUR_MS
  /\ UNCHANGED <<remoteLastChecked, remoteETag, settingsRemoteCachedRules, fetchPc,
                 opts, response, outcome, atCall, fetches, calls, notFetch>>

\* lines 21-32: the guards, and the fetch if they let it through
CallMaybeRefresh(o) ==
  /\ fetchPc \in {"idle", "done"}
  /\ calls < MaxCalls
  /\ calls' = calls + 1
  /\ opts' = o
  /\ response' = NoResponse
  /\ atCall' = [cached |-> settingsRemoteCachedRules, etag |-> remoteETag]
  /\ IF notConfigured(o)
     THEN /\ outcome' = returnNull("notConfigured")
          /\ fetchPc' = "done"
          /\ UNCHANGED fetches
     ELSE IF tooSoon(now, remoteLastChecked, o.intervalHours)
     THEN /\ outcome' = returnNull("tooSoon")
          /\ fetchPc' = "done"
          /\ UNCHANGED fetches
     ELSE /\ outcome' = Pending
          /\ fetchPc' = "fetching"
          /\ fetches' = Append(fetches,
               [at |-> now, opts |-> o, last |-> remoteLastChecked,
                ifNoneMatch |-> remoteETag, failed |-> FALSE])
  /\ UNCHANGED <<now, remoteLastChecked, remoteETag, settingsRemoteCachedRules, notFetch>>

markFailed(fs) == [fs EXCEPT ![Len(fs)].failed = TRUE]

\* line 32 throws: no connection, or a timeout
FetchRejects ==
  /\ fetchPc = "fetching"
  /\ outcome' = catchResult("transport")
  /\ fetchPc' = "done"
  /\ fetches' = markFailed(fetches)
  /\ UNCHANGED <<now, remoteLastChecked, remoteETag, settingsRemoteCachedRules, opts,
                 response, atCall, calls, notFetch>>

\* lines 32-33: the response arrives and the time of the check is stored
FetchResolves(res) ==
  /\ fetchPc = "fetching"
  /\ response' = res
  /\ remoteLastChecked' = now
  /\ fetchPc' = "checked"
  /\ UNCHANGED <<now, remoteETag, settingsRemoteCachedRules, opts, outcome, atCall,
                 fetches, calls, notFetch>>

\* line 35
NotModified ==
  /\ fetchPc = "checked"
  /\ response.status = 304
  /\ outcome' = returnNull("notModified")
  /\ fetchPc' = "done"
  /\ UNCHANGED <<now, remoteLastChecked, remoteETag, settingsRemoteCachedRules, opts,
                 response, atCall, fetches, calls, notFetch>>

\* line 36
NotOk ==
  /\ fetchPc = "checked"
  /\ response.status # 304
  /\ ~ok(response.status)
  /\ outcome' = returnNull("notOk")
  /\ fetchPc' = "done"
  /\ UNCHANGED <<now, remoteLastChecked, remoteETag, settingsRemoteCachedRules, opts,
                 response, atCall, fetches, calls, notFetch>>

\* line 39 throws (the transfer breaks off) or line 41 throws (not JSON)
BodyFails ==
  /\ fetchPc = "checked"
  /\ response.status # 304
  /\ ok(response.status)
  /\ response.body \in {"aborted", "malformed"}
  /\ outcome' = catchResult(IF response.body = "aborted" THEN "transport" ELSE "malformed")
  /\ fetchPc' = "done"
  /\ fetches' = IF response.body = "aborted" THEN markFailed(fetches) ELSE fetches
  /\ UNCHANGED <<now, remoteLastChecked, remoteETag, settingsRemoteCachedRules, opts,
                 response, atCall, calls, notFetch>>

\* lines 38-47: the body parses; the ETag and the body are stored.  A stored
\* "null" is read back as no table (lines 11-13).
StoreRules ==
  /\ fetchPc = "checked"
  /\ response.status # 304
  /\ ok(response.status)
  /\ response.body \in {"rules", "null"}
  /\ remoteETag' = newEtag(response)
  /\ settingsRemoteCachedRules' = IF response.body = "rules" THEN <<NewRemote>> ELSE <<>>
  /\ outcome' = IF response.body = "rules" THEN returnRules(NewRemote)
                ELSE returnNull("nullBody")
  /\ fetchPc' = "done"
  /\ UNCHANGED <<now, remoteLastChecked, opts, response, atCall, fetches, calls, notFetch>>

FetchNext ==
  \/ Tick
  \/ \E o \in Options : CallMaybeRefresh(o)
  \/ FetchRejects
  \/ \E res \in Responses : FetchResolves(res)
  \/ NotModified
  \/ NotOk
  \/ BodyFails
  \/ StoreRules

SpecFetch == FetchInit /\ [][FetchNext]_vars

---------------------------------------------------------------------------
(* The four trigger paths of index.ts, each between its awaits: the DOM
   keydown handler (419-483), the onInputSelectionEnd callback (489-545),
   the App.onKeyDown callback (552-595) and slowPollingCheck (609-703).
   One invocation runs at a time; the enabled setting may change between
   any two steps, and a host call may answer with nothing or throw. *)

Paths == {"dom", "onInputSelectionEnd", "onKeyDown", "polling"}

\* line 429: !editing
notEditing(editing) == ~editing

\* lines 435, 503, 567, 645: !content || typeof content !== 'string'
noContent(content) == content = <<>>

\* lines 441, 507, 571, 666: pos === null
noCursor(pos) == pos = NullPos

\* Mutant: a missing block is not noticed.
noBlock_Never(block) == FALSE

\* lines 447, 520, 578, 658, 676-685: !block?.uuid
noBlock(block) == block = NullUuid

\* lines 513, 574, 669
checkChar(content, pos) ==
  IF pos > 0 THEN charAt(content, pos - 1) ELSE charAt(content, pos)

\* Mutant: the offset is moved before the trigger character, as in 577-583.
selectionReplace_Adjusted(content, pos, blockUuid) ==
  IF shouldSuppress(blockUuid, content) THEN Null
  ELSE
    LET replaced == replaceWordBeforeCursor(content, Max(0, pos - 1), cachedRules)
    IN  IF ~replaced.ok \/ replaced.newText = <<>> THEN Null ELSE replaced

\* lines 525-533: the onInputSelectionEnd callback replaces at pos itself
selectionReplace(content, pos, blockUuid) ==
  IF shouldSuppress(blockUuid, content) THEN Null
  ELSE
    LET replaced == replaceWordBeforeCursor(content, pos, cachedRules)
    IN  IF ~replaced.ok \/ replaced.newText = <<>> THEN Null ELSE replaced

\* the replacement a path finds for what it has read
replacedOn(path, content, pos, blockUuid) ==
  IF path \in {"dom", "polling"} THEN processAutocorrect(content, pos, blockUuid)
  ELSE IF path = "onInputSelectionEnd" THEN selectionReplace(content, pos, blockUuid)
  ELSE onKeyDownReplace(content, pos)

\* lines 473, 539, 589, 697: replaced.newCursorPos !== pos
needsRestore(replaced, pos) == replaced.newCursorPos # pos

---------------------------------------------------------------------------
(* Keystrokes, polls, setting changes and host answers *)

MaxWords == 2

EndTeh == <<"t","e","h"," ">>

EndWierd == <<"w","i","e","r","d"," ">>

EndOccured == <<"o","c","c","u","r","e","d"," ">>

\* a word and a space, typed at the end of the block
Words == { EndTeh, EndWierd, EndOccured }

\* the filtered table and a personal rule whose typo is another rule's
\* correction
ChainedRules ==
  Override(MkRules({ << <<"w","e","i","r","d">>, <<"w","i","r","e","d">> >> }), SafeRules)

PathsInit ==
  /\ text = <<>>
  /\ cursorPos = 0
  /\ cachedRules = ChainedRules
  /\ enabled = TRUE
  /\ lastCorrectedBlockUuid = NullUuid
  /\ lastCorrectedContentHash = NullHash
  /\ pc = "idle"
  /\ result = Null
  /\ PathsAtRest
  /\ MoreAtRest
  /\ HostAtRest
  /\ TriggerAtRest
  /\ ParseAtRest
  /\ RulesAtRest
  /\ FilterAtRest
  /\ BuildAtRest
  /\ FetchAtRest

notPaths ==
  <<cachedRules, pc, result, handlers, version, triggerVars, parseVars, rulesVars,
    filterVars, buildVars, fetchVars, moreVars>>

QueryPcs == {"checkEditing", "getContent", "pollFirstBlock", "getCursor", "getBlock"}

Resting == attempt.pc \in {"none", "ended"}

\* An invocation ends "aborted" when the host reports nothing or throws
\* before updateBlock is called, "nothingToDo" when it returns for another
\* reason, "corrected" or "restored" after updateBlock, "threwAfterUpdate"
\* when updateBlock or restoreEditingCursor throws.  What it had read is gone.
ended(a, cause) == [NoAttempt EXCEPT !.pc = "ended", !.end = cause]

\* the user finishes a word: the keydown listeners and the callbacks are
\* scheduled (lines 350-352); App.onKeyDown tests the setting at once (557).
\* The timers of a keystroke (0 ms and 10 ms) have fired before the next
\* one; updates holds the calls of updateBlock since the last keystroke, and
\* afterFailure tells the first invocation after the keystroke that the
\* invocation before the keystroke was aborted.
domKeyDownHandler(w) ==
  /\ Resting
  /\ scheduled = {}
  /\ updates' = <<>>
  /\ edits < MaxWords
  /\ text' = text \o w
  /\ cursorPos' = Len(text \o w)
  /\ attempt' = [NoAttempt EXCEPT !.afterFailure = attempt.end = "aborted"]
  /\ edits' = edits + 1
  /\ scheduled' = {"dom", "onInputSelectionEnd"}
                    \cup (IF enabled THEN {"onKeyDown"} ELSE {})
  /\ UNCHANGED <<enabled, lastCorrectedBlockUuid, lastCorrectedContentHash,
                 lastContent, lastBlockUuid, notPaths>>

\* the user changes the setting
ToggleEnabled ==
  /\ enabled' = ~enabled
  /\ UNCHANGED <<text, cursorPos, lastCorrectedBlockUuid, lastCorrectedContentHash,
                 updates, edits, attempt, scheduled, lastContent,
                 lastBlockUuid, notPaths>>

\* a scheduled path, or a poll, starts: lines 423, 493 test the setting
StartAttempt(p) ==
  /\ Resting
  /\ p = "polling" \/ p \in scheduled
  /\ scheduled' = scheduled \ {p}
  /\ LET a == [NoAttempt EXCEPT
                 !.path = p, !.pc = "checkEditing",
                 !.afterFailure = attempt.afterFailure]
     IN  attempt' = IF p \in {"dom", "onInputSelectionEnd"} /\ ~enabled
                    THEN ended(a, "nothingToDo") ELSE a
  /\ UNCHANGED <<text, cursorPos, enabled, lastCorrectedBlockUuid,
                 lastCorrectedContentHash, updates, edits, lastContent, lastBlockUuid, notPaths>>

\* lines 428, 498, 562, 641: await logseq.Editor.checkEditing()
CheckEditing(fails) ==
  /\ attempt.pc = "checkEditing"
  /\ LET editing == ~fails
         a == [attempt EXCEPT !.editing = editing]
     IN  attempt' = IF notEditing(editing) THEN ended(a, "aborted")
                    ELSE [a EXCEPT !.pc = "getContent"]
  /\ UNCHANGED <<text, cursorPos, enabled, lastCorrectedBlockUuid,
                 lastCorrectedContentHash, updates, edits, scheduled, lastContent, lastBlockUuid, notPaths>>

\* lines 434, 501, 565, 644-662: await logseq.Editor.getEditingBlockContent()
GetContent(fails) ==
  /\ attempt.pc = "getContent"
  /\ LET content == IF fails THEN <<>> ELSE text
         a == [attempt EXCEPT !.content = content]
     IN  IF noContent(content)
         THEN attempt' = ended(a, "aborted") /\ UNCHANGED lastContent
         ELSE IF a.path # "polling"
         THEN attempt' = [a EXCEPT !.pc = "getCursor"] /\ UNCHANGED lastContent
         ELSE IF lastBlockUuid = NullUuid
         THEN attempt' = [a EXCEPT !.pc = "pollFirstBlock"] /\ UNCHANGED lastContent
         ELSE IF content = lastContent
         THEN attempt' = ended(a, "nothingToDo") /\ UNCHANGED lastContent
         ELSE attempt' = [a EXCEPT !.pc = "getCursor"] /\ lastContent' = content
  /\ UNCHANGED <<text, cursorPos, enabled, lastCorrectedBlockUuid,
                 lastCorrectedContentHash, updates, edits, scheduled, lastBlockUuid, notPaths>>

\* lines 655-662: the first poll of a block only remembers it
PollFirstBlock(fails) ==
  /\ attempt.pc = "pollFirstBlock"
  /\ LET block == IF fails THEN NullUuid ELSE CurrentBlock
         a == attempt
     IN  IF noBlock(block)
         THEN attempt' = ended(a, "aborted") /\ UNCHANGED <<lastContent, lastBlockUuid>>
         ELSE /\ attempt' = ended(a, "nothingToDo")
              /\ lastBlockUuid' = block
              /\ lastContent' = a.content
  /\ UNCHANGED <<text, cursorPos, enabled, lastCorrectedBlockUuid,
                 lastCorrectedContentHash, updates, edits, scheduled, notPaths>>

\* lines 440, 506-516, 570-575, 665-670: await getCursorPos(), then the
\* trigger test of the paths that make it themselves
GetCursor(fails) ==
  /\ attempt.pc = "getCursor"
  /\ LET pos == IF fails THEN NullPos ELSE cursorPos
         a == [attempt EXCEPT !.pos = pos]
     IN  attempt' =
           IF noCursor(pos) THEN ended(a, "aborted")
           ELSE IF a.path = "onKeyDown" /\ pos = 0 THEN ended(a, "nothingToDo")
           ELSE IF a.path # "dom" /\ ~shouldTrigger(checkChar(a.content, pos))
           THEN ended(a, "nothingToDo")
           ELSE [a EXCEPT !.pc = "getBlock"]
  /\ UNCHANGED <<text, cursorPos, enabled, lastCorrectedBlockUuid,
                 lastCorrectedContentHash, updates, edits, scheduled, lastContent, lastBlockUuid, notPaths>>

\* lines 446-471, 519-537, 577-587, 672-695: await getCurrentBlock(), the
\* replacement, markCorrection and the call of updateBlock
GetBlock(fails) ==
  /\ attempt.pc = "getBlock"
  /\ LET block == IF fails THEN NullUuid ELSE CurrentBlock
         a == [attempt EXCEPT !.block = block]
         replaced == replacedOn(a.path, a.content, a.pos, block)
     IN  IF noBlock(block)
         THEN /\ attempt' = ended(a, "aborted")
              /\ UNCHANGED <<lastCorrectedBlockUuid, lastCorrectedContentHash, updates,
                             lastBlockUuid>>
         ELSE /\ lastBlockUuid' = IF a.path = "polling" THEN block ELSE lastBlockUuid
              /\ IF ~replaced.ok
                 THEN /\ attempt' = ended(a, "nothingToDo")
                      /\ UNCHANGED <<lastCorrectedBlockUuid, lastCorrectedContentHash,
                                     updates>>
                 ELSE /\ attempt' = [a EXCEPT !.pc = "updating", !.replaced = replaced,
                                               !.enabledAtCall = enabled]
                      /\ lastCorrectedBlockUuid' = block
                      /\ lastCorrectedContentHash' = hashContent(replaced.newText)
                      /\ updates' = Append(updates,
                           [content |-> a.content, newText |-> replaced.newText])
  /\ UNCHANGED <<text, cursorPos, enabled, edits, scheduled, lastContent,
                 notPaths>>

\* lines 476-479 and 700: what the DOM handler and the poll remember
remembered(a) ==
  /\ lastContent' = IF a.path \in {"dom", "polling"} THEN a.replaced.newText
                    ELSE lastContent
  /\ lastBlockUuid' = IF a.path = "dom" THEN a.block ELSE lastBlockUuid

\* lines 471-475, 537-541, 587-591, 695-699: updateBlock resolves, the host
\* shows the new text with the cursor behind the character it was behind;
\* restoreEditingCursor is called or not
UpdateResolves ==
  /\ attempt.pc = "updating"
  /\ text' = attempt.replaced.newText
  /\ cursorPos' = Max(0, Min(Len(attempt.replaced.newText),
                     cursorPos + Len(attempt.replaced.newText) - Len(text)))
  /\ IF needsRestore(attempt.replaced, attempt.pos)
     THEN /\ attempt' = [attempt EXCEPT !.pc = "restoring"]
          /\ UNCHANGED <<lastContent, lastBlockUuid>>
     ELSE /\ attempt' = ended(attempt, "corrected")
          /\ remembered(attempt)
  /\ UNCHANGED <<enabled, lastCorrectedBlockUuid, lastCorrectedContentHash, updates, edits,
                 scheduled, notPaths>>

\* restoreEditingCursor resolves
RestoreResolves ==
  /\ attempt.pc = "restoring"
  /\ attempt' = ended(attempt, "restored")
  /\ remembered(attempt)
  /\ UNCHANGED <<text, cursorPos, enabled, lastCorrectedBlockUuid,
                 lastCorrectedContentHash, updates, edits, scheduled, notPaths>>

\* a host call throws; the catch clause of the path logs the error
\* (lines 480-482, 542-544, 592-594, 701-703)
HostThrows ==
  /\ attempt.pc \in QueryPcs \cup {"updating", "restoring"}
  /\ attempt' = IF attempt.pc \in QueryPcs THEN ended(attempt, "aborted")
                ELSE ended(attempt, "threwAfterUpdate")
  /\ UNCHANGED <<text, cursorPos, enabled, lastCorrectedBlockUuid,
                 lastCorrectedContentHash, updates, edits, scheduled, lastContent, lastBlockUuid, notPaths>>

PathsNext ==
  \/ \E w \in Words : domKeyDownHandler(w)
  \/ ToggleEnabled
  \/ \E p \in Paths : StartAttempt(p)
  \/ \E fails \in BOOLEAN : CheckEditing(fails)
  \/ \E fails \in BOOLEAN : GetContent(fails)
  \/ \E fails \in BOOLEAN : PollFirstBlock(fails)
  \/ \E fails \in BOOLEAN : GetCursor(fails)
  \/ \E fails \in BOOLEAN : GetBlock(fails)
  \/ UpdateResolves
  \/ RestoreResolves
  \/ HostThrows

SpecPaths == PathsInit /\ [][PathsNext]_vars

---------------------------------------------------------------------------
(* adaptivePollLoop, index.ts 706-742: after every poll the loop asks the
   host whether the user is editing and chooses the delay of the next poll *)

\* Mutant: three idle polls are enough to slow down.
slowDown_AtThree(idlePolls, interval) == idlePolls >= 3 /\ interval < IDLE_POLL_MS

\* line 729: consecutiveIdlePolls > 3 && pollIntervalMs < 3000
slowDown(idlePolls, interval) == idlePolls > 3 /\ interval < IDLE_POLL_MS

\* line 720: pollIntervalMs > 500
speedUp(interval) == interval > FAST_POLL_MS

\* line 716: await logseq.Editor.checkEditing().catch(() => false)
editingOf(report) == report = "editing"

MaxIterations == 5

\* what checkEditing does in one iteration: it resolves to true or to false,
\* or it rejects
Reports == {"editing", "notEditing", "rejected"}

PollInit ==
  /\ PollAtRest
  /\ BlocksAtRest
  /\ SafeAtRest
  /\ FilterAtRest
  /\ BuildAtRest
  /\ FetchAtRest
  /\ PathsAtRest
  /\ EngineAtRest
  /\ TriggerAtRest
  /\ ParseAtRest
  /\ RulesAtRest
  /\ HostAtRest

notPoll ==
  <<blockVars, safeVars, filterVars, buildVars, fetchVars, pathVars, engineVars,
    triggerVars, parseVars, rulesVars, hostVars>>

\* lines 711-739: one iteration, up to the setTimeout that schedules the next
AdaptivePollLoop(report) ==
  /\ Len(reports) < MaxIterations
  /\ reports' = Append(reports, report)
  /\ IF editingOf(report)
     THEN /\ pollIntervalMs' = IF speedUp(pollIntervalMs) THEN FAST_POLL_MS
                               ELSE pollIntervalMs
          /\ consecutiveIdlePolls' = 0
     ELSE /\ consecutiveIdlePolls' = consecutiveIdlePolls + 1
          /\ pollIntervalMs' = IF slowDown(consecutiveIdlePolls + 1, pollIntervalMs)
                               THEN IDLE_POLL_MS ELSE pollIntervalMs
  /\ UNCHANGED notPoll

PollNext == \E report \in Reports : AdaptivePollLoop(report)

SpecPoll == PollInit /\ [][PollNext]_vars

---------------------------------------------------------------------------
(***************************************************************************)
(* The polling path alone (src/src/index.ts, lines 609-742): the events of *)
(* a keystroke never reach the plugin, the host answers every query, and   *)
(* adaptivePollLoop reschedules itself in its finally clause (line 737).   *)
(***************************************************************************)

FallbackInit ==
  /\ text = <<>>
  /\ cursorPos = 0
  /\ cachedRules = SafeRules
  /\ enabled = TRUE
  /\ lastCorrectedBlockUuid = NullUuid
  /\ lastCorrectedContentHash = NullHash
  /\ pc = "idle"
  /\ result = Null
  /\ PathsAtRest
  /\ MoreAtRest
  /\ HostAtRest
  /\ TriggerAtRest
  /\ ParseAtRest
  /\ RulesAtRest
  /\ FilterAtRest
  /\ BuildAtRest
  /\ FetchAtRest

\* the user finishes a word and no listener or callback is invoked
TypeUnseen(w) ==
  /\ Resting
  /\ edits < MaxWords
  /\ text' = text \o w
  /\ cursorPos' = Len(text \o w)
  /\ edits' = edits + 1
  /\ updates' = <<>>
  /\ attempt' = NoAttempt
  /\ UNCHANGED <<enabled, lastCorrectedBlockUuid, lastCorrectedContentHash,
                 scheduled, lastContent, lastBlockUuid, notPaths>>

FallbackNext ==
  \/ \E w \in Words : TypeUnseen(w)
  \/ StartAttempt("polling")
  \/ CheckEditing(FALSE)
  \/ GetContent(FALSE)
  \/ PollFirstBlock(FALSE)
  \/ GetCursor(FALSE)
  \/ GetBlock(FALSE)
  \/ UpdateResolves
  \/ RestoreResolves

\* line 737: the next poll is always scheduled; the host answers each await.
\* GetBlock(FALSE) is the only step of FallbackNext that is possible while the
\* invocation waits for getCurrentBlock, so weak fairness of it is that the
\* invocation does not wait there for ever.
FallbackFairness ==
  /\ WF_vars(StartAttempt("polling"))
  /\ WF_vars(CheckEditing(FALSE))
  /\ WF_vars(GetContent(FALSE))
  /\ WF_vars(PollFirstBlock(FALSE))
  /\ WF_vars(GetCursor(FALSE))
  /\ []<>(attempt.pc # "getBlock")
  /\ WF_vars(UpdateResolves)
  /\ WF_vars(RestoreResolves)

SpecFallback == FallbackInit /\ [][FallbackNext]_vars /\ FallbackFairness

---------------------------------------------------------------------------

(***************************************************************************)
(* The onInputSelectionEnd callback alone (src/src/index.ts, lines         *)
(* 489-545), for every text of Texts and every cursor offset in it.        *)
(***************************************************************************)

SelectionInit ==
  /\ text \in Texts
  /\ cursorPos = Len(text)
  /\ cachedRules = SafeRules
  /\ enabled \in BOOLEAN
  /\ lastCorrectedBlockUuid = NullUuid
  /\ lastCorrectedContentHash = NullHash
  /\ pc = "idle"
  /\ result = Null
  /\ PathsAtRest
  /\ MoreAtRest
  /\ HostAtRest
  /\ TriggerAtRest
  /\ ParseAtRest
  /\ RulesAtRest
  /\ FilterAtRest
  /\ BuildAtRest
  /\ FetchAtRest

\* line 489: the host reports the end of an input selection with the cursor
\* at offset p
onInputSelectionEnd(p) ==
  /\ Resting
  /\ scheduled = {}
  /\ cursorPos' = p
  /\ scheduled' = {"onInputSelectionEnd"}
  /\ attempt' = NoAttempt
  /\ UNCHANGED <<text, enabled, lastCorrectedBlockUuid, lastCorrectedContentHash,
                 updates, edits, lastContent, lastBlockUuid, notPaths>>

SelectionNext ==
  \/ \E p \in 0..Len(text) : onInputSelectionEnd(p)
  \/ StartAttempt("onInputSelectionEnd")
  \/ \E fails \in BOOLEAN : CheckEditing(fails)
  \/ \E fails \in BOOLEAN : GetContent(fails)
  \/ \E fails \in BOOLEAN : GetCursor(fails)
  \/ \E fails \in BOOLEAN : GetBlock(fails)
  \/ HostThrows

SpecSelection == SelectionInit /\ [][SelectionNext]_vars

---------------------------------------------------------------------------

(***************************************************************************)
(* Two blocks (src/src/index.ts, lines 423-483, 560-595, 609-704): the     *)
(* user moves between them while a handler waits for the host.  The host   *)
(* answers every query for the block that is being edited when it answers, *)
(* with the cursor at the end of that block; updateBlock is applied when   *)
(* it is called.  updates holds one entry per call of updateBlock: the     *)
(* uuid passed, the block the content was read from, the content read and  *)
(* the text written.                                                       *)
(***************************************************************************)

MaxUpdates == 2

BlockTexts == {<<>>, EndTeh, EndWierd, EndOccured}

BlockPaths == {"dom", "onKeyDown", "polling"}

BlocksInit ==
  /\ editingUuid \in Blocks
  /\ contents \in [Blocks -> BlockTexts]
  /\ reader = NoReader
  /\ text = <<>>
  /\ cursorPos = 0
  /\ cachedRules = SafeRules
  /\ enabled = TRUE
  /\ lastCorrectedBlockUuid = NullUuid
  /\ lastCorrectedContentHash = NullHash
  /\ pc = "idle"
  /\ result = Null
  /\ PathsAtRest
  /\ PollAtRest
  /\ SafeAtRest
  /\ HostAtRest
  /\ TriggerAtRest
  /\ ParseAtRest
  /\ RulesAtRest
  /\ FilterAtRest
  /\ BuildAtRest
  /\ FetchAtRest

notBlocks ==
  <<text, cursorPos, cachedRules, enabled, pc, result, handlers, version, edits,
    attempt, scheduled, triggerVars, parseVars, rulesVars, filterVars, buildVars,
    fetchVars, pollVars, safeVars>>

\* the user moves the editing cursor into block b
SwitchBlock(b) ==
  /\ b # editingUuid
  /\ editingUuid' = b
  /\ UNCHANGED <<contents, reader, updates, lastCorrectedBlockUuid,
                 lastCorrectedContentHash, lastContent, lastBlockUuid, notBlocks>>

\* lines 423-432, 560-563, 609-642: a handler starts and checkEditing
\* resolves to true
StartHandler(p) ==
  /\ reader.pc = "idle"
  /\ Len(updates) < MaxUpdates
  /\ reader' = [NoReader EXCEPT !.path = p, !.pc = "getContent"]
  /\ UNCHANGED <<editingUuid, contents, updates, lastCorrectedBlockUuid,
                 lastCorrectedContentHash, lastContent, lastBlockUuid, notBlocks>>

\* lines 434, 565, 644-654: getEditingBlockContent resolves
GetEditingBlockContent ==
  /\ reader.pc = "getContent"
  /\ LET content == contents[editingUuid]
         r == [reader EXCEPT !.content = content, !.readFrom = editingUuid]
     IN  IF noContent(content)
         THEN reader' = NoReader /\ UNCHANGED lastContent
         ELSE IF r.path # "polling"
         THEN reader' = [r EXCEPT !.pc = "getCursor"] /\ UNCHANGED lastContent
         ELSE IF lastBlockUuid = NullUuid
         THEN reader' = [r EXCEPT !.pc = "pollFirstBlock"] /\ UNCHANGED lastContent
         ELSE IF content = lastContent
         THEN reader' = NoReader /\ UNCHANGED lastContent
         ELSE reader' = [r EXCEPT !.pc = "getCursor"] /\ lastContent' = content
  /\ UNCHANGED <<editingUuid, contents, updates, lastCorrectedBlockUuid,
                 lastCorrectedContentHash, lastBlockUuid, notBlocks>>

\* lines 655-662: getCurrentBlock resolves in the first poll
GetFirstBlock ==
  /\ reader.pc = "pollFirstBlock"
  /\ reader' = NoReader
  /\ lastBlockUuid' = editingUuid
  /\ lastContent' = reader.content
  /\ UNCHANGED <<editingUuid, contents, updates, lastCorrectedBlockUuid,
                 lastCorrectedContentHash, notBlocks>>

\* lines 440, 570-575, 665-669: getCursorPos resolves
GetCursorPos ==
  /\ reader.pc = "getCursor"
  /\ LET pos == Len(contents[editingUuid])
         r == [reader EXCEPT !.pos = pos]
     IN  reader' =
           IF r.path = "onKeyDown" /\ pos = 0 THEN NoReader
           ELSE IF r.path # "dom" /\ ~shouldTrigger(checkChar(r.content, pos))
           THEN NoReader
           ELSE [r EXCEPT !.pc = "getBlock"]
  /\ UNCHANGED <<editingUuid, contents, updates, lastCorrectedBlockUuid,
                 lastCorrectedContentHash, lastContent, lastBlockUuid, notBlocks>>

\* lines 446-479, 577-591, 672-700: getCurrentBlock resolves; the
\* replacement, markCorrection, updateBlock(block.uuid, replaced.newText)
\* and what the handler remembers
GetCurrentBlock ==
  /\ reader.pc = "getBlock"
  /\ LET block == editingUuid
         replaced == replacedOn(reader.path, reader.content, reader.pos, block)
     IN  IF ~replaced.ok
         THEN /\ lastBlockUuid' = IF reader.path = "polling" THEN block
                                  ELSE lastBlockUuid
              /\ UNCHANGED <<contents, updates, lastCorrectedBlockUuid,
                             lastCorrectedContentHash, lastContent>>
         ELSE /\ lastCorrectedBlockUuid' = block
              /\ lastCorrectedContentHash' = hashContent(replaced.newText)
              /\ updates' = Append(updates,
                   [uuid |-> block, readFrom |-> reader.readFrom,
                    content |-> reader.content, newText |-> replaced.newText])
              /\ contents' = [contents EXCEPT ![block] = replaced.newText]
              /\ lastContent' = IF reader.path \in {"dom", "polling"}
                                THEN replaced.newText ELSE lastContent
              /\ lastBlockUuid' = IF reader.path \in {"dom", "polling"} THEN block
                                  ELSE lastBlockUuid
  /\ reader' = NoReader
  /\ UNCHANGED <<editingUuid, notBlocks>>

BlocksNext ==
  \/ \E b \in Blocks : SwitchBlock(b)
  \/ \E p \in BlockPaths : StartHandler(p)
  \/ GetEditingBlockContent
  \/ GetFirstBlock
  \/ GetCursorPos
  \/ GetCurrentBlock

SpecBlocks == BlocksInit /\ [][BlocksNext]_vars

---------------------------------------------------------------------------

(***************************************************************************)
(* replaceWordBeforeCursor under a table composed by rebuildRules          *)
(* (src/src/index.ts, lines 63-69) from the filtered base table and a      *)
(* remote table whose keys are not plain lowercase words.                  *)
(***************************************************************************)

\* a remote table as received: keys with an uppercase letter (one with a
\* lowercase twin in the base table, one without), a digit, an underscore, a
\* boundary character
OddRemote ==
  MkRules({
    << <<"W","i","e","r","d">>, <<"w","i","r","e","d">> >>,
    << <<"R","e","c","i","e","v","e">>, <<"r","e","c","e","i","v","e">> >>,
    << <<"h","3","l","l","o">>, <<"h","e","l","l","o">> >>,
    << <<"m","y","_","v","a","r">>, <<"m","y","v","a","r">> >>,
    << <<"o","c","c",".","u","r","e","d">>, <<"o","c","c","u","r","s">> >>
  })

KeyRules == rebuildRules(SafeRules, <<OddRemote>>, <<>>, NoRules)

KeyWords ==
  UNION { {k, toLowerCase(k), toUpperCase(k)} : k \in DOMAIN OddRemote }
    \cup { <<"u","n","t","i","l","l">> }

KeyTexts ==
  { l \o w \o s : l \in { <<>>, <<"I"," ">> }, w \in KeyWords,
                  s \in { <<>>, <<" ">> } }

KeysInit ==
  /\ text \in KeyTexts
  /\ cursorPos \in 0..Len(text)
  /\ cachedRules = KeyRules
  /\ enabled = TRUE
  /\ lastCorrectedBlockUuid = NullUuid
  /\ lastCorrectedContentHash = NullHash
  /\ pc = "idle"
  /\ result = Null
  /\ TriggerAtRest
  /\ ParseAtRest
  /\ RulesAtRest
  /\ HostAtRest
  /\ LaterAtRest

KeysNext ==
  \/ \E p \in 0..Len(text) : MoveCursor(p)
  \/ CallReplace

SpecKeys == KeysInit /\ [][KeysNext]_vars

---------------------------------------------------------------------------

(***************************************************************************)
(* The two safety checks side by side: isSafeToCorrect of                  *)
(* src/src/autocorrect.ts (lines 89-111) and isSafeToInclude of            *)
(* src/scripts/build-dict.ts (lines 156-180), on lowercase pairs.          *)
(***************************************************************************)

\* lowercase typos: every protected, ambiguous and excepted word, the
\* corrections of the exception list, and some words of no list
LowerTypos ==
  UK_ENGLISH_WORDS \cup AMBIGUOUS_WORDS
    \cup {p[1] : p \in SafeShortPairs} \cup {p[2] : p \in SafeShortPairs}
    \cup { <<"a","b">>, <<"w","i","e","r","d">>, <<"u","n","t","i","l","l">>,
           <<"o","c","c","u","r","e","d">> }

\* lowercase corrections: those of the exception list, two ambiguous words,
\* a protected word, and some words of no list
LowerCorrections ==
  {p[2] : p \in SafeShortPairs}
    \cup { <<"t","h","e","i","r">>, <<"f","o","r","m">>, <<"c","o","l","o","u","r">>,
           <<"a","b","c","d">>, <<"w","e","i","r","d">>, <<"u","n","t","i","l">> }

SafeInit ==
  /\ pair \in LowerTypos \X LowerCorrections
  /\ verdicts = <<>>
  /\ PollAtRest
  /\ BlocksAtRest
  /\ PathsAtRest
  /\ FilterAtRest
  /\ BuildAtRest
  /\ FetchAtRest
  /\ EngineAtRest
  /\ TriggerAtRest
  /\ ParseAtRest
  /\ RulesAtRest
  /\ HostAtRest

notSafe ==
  <<pair, pollVars, blockVars, filterVars, buildVars, fetchVars, pathVars, engineVars,
    triggerVars, parseVars, rulesVars, hostVars>>

\* autocorrect.ts 158: isSafeToCorrect(word, replacement)
CallIsSafeToCorrect ==
  /\ "runtime" \notin DOMAIN verdicts
  /\ verdicts' = verdicts @@ ("runtime" :> isSafeToCorrect(pair[1], pair[2]))
  /\ UNCHANGED notSafe

\* build-dict.ts 145: isSafeToInclude(typo, correction)
CallIsSafeToInclude ==
  /\ "build" \notin DOMAIN verdicts
  /\ verdicts' = verdicts @@ ("build" :> isSafeToInclude(pair[1], pair[2]))
  /\ UNCHANGED notSafe

SafeNext ==
  \/ CallIsSafeToCorrect
  \/ CallIsSafeToInclude

SpecSafe == SafeInit /\ [][SafeNext]_vars

---------------------------------------------------------------------------

(* What the properties speak about, stated without the code's own scan *)

\* The word immediately before offset pos: the longest run of non-boundary
\* characters of t that ends at pos.
WordBefore(t, pos) ==
  LET n == CHOOSE n \in 0..pos :
             /\ \A i \in (pos - n + 1)..pos : t[i] \notin BoundaryChars
             /\ (n = pos \/ t[pos - n] \in BoundaryChars)
  IN  SubSeq(t, pos - n + 1, pos)

\* The word the last replaceWordBeforeCursor call was about, and its lower case.
TheWord == WordBefore(text, cursorPos)

TheWordLower == toLowerCase(TheWord)

HasRule == TheWordLower \in DOMAIN cachedRules

OddBackticks ==
  Cardinality({i \in 1..cursorPos : text[i] = BACKTICK}) % 2 = 1

---------------------------------------------------------------------------
(* Properties *)

\* C1: replaceWordBeforeCursor returns null whenever the lowercased word
\* immediately before the offset is in the dialect-protected set, whatever
\* the casing of the typed word and whatever the rule table maps it to.
C1_DialectProtectedNeverCorrected ==
  (pc = "replaced" /\ TheWordLower \in UK_ENGLISH_WORDS) => result = Null

\* C1 case: COLOUR typed outside a code span, with a rule colour -> color.
C1_Witness ==
  /\ pc = "replaced"
  /\ TheWord = <<"C","O","L","O","U","R">>
  /\ ~OddBackticks
  /\ HasRule
  /\ cachedRules[TheWordLower] = <<"c","o","l","o","r">>
  /\ result = Null

\* C2: replaceWordBeforeCursor returns null when the lowercased word is in
\* the ambiguous set, and when the lowercased stored correction is.
C2_AmbiguousNeverCorrected ==
  (/\ pc = "replaced"
   /\ \/ TheWordLower \in AMBIGUOUS_WORDS
      \/ HasRule /\ toLowerCase(cachedRules[TheWordLower]) \in AMBIGUOUS_WORDS)
  => result = Null

\* C2 case: thier typed outside a code span with a rule thier -> their; the
\* correction, not the word, is ambiguous.
C2_Witness ==
  /\ pc = "replaced"
  /\ TheWord = <<"t","h","i","e","r">>
  /\ ~OddBackticks
  /\ HasRule
  /\ cachedRules[TheWordLower] = <<"t","h","e","i","r">>
  /\ TheWordLower \notin AMBIGUOUS_WORDS
  /\ result = Null

\* The stored correction of the word, when the table has one.
TheRule == cachedRules[TheWordLower]

HasDigitOrUnderscore(w) == \E i \in 1..Len(w) : w[i] \in Digits \cup {"_"}

\* The call got as far as the safety check: outside a code span, a word that
\* is no identifier, with a non-empty stored correction other than itself.
ReachedSafetyCheck ==
  /\ pc = "replaced"
  /\ ~OddBackticks
  /\ TheWord # <<>>
  /\ ~HasDigitOrUnderscore(TheWord)
  /\ HasRule
  /\ TheRule # <<>>
  /\ TheRule # TheWordLower

ProcPos == IF cursorPos > 0 THEN cursorPos - 1 ELSE cursorPos

ProcWordLower == toLowerCase(WordBefore(text, ProcPos))

C4_NoKnownTypoNoCandidate ==
  /\ (/\ pc = "replaced"
      /\ \/ ~HasRule
         \/ TheRule = TheWordLower
         \/ DOMAIN cachedRules = {})
     => result = Null
  /\ (/\ pc = "processed"
      /\ \/ ProcWordLower \notin DOMAIN cachedRules
         \/ cachedRules[ProcWordLower] = ProcWordLower
         \/ DOMAIN cachedRules = {})
     => result = Null

\* C4 case: weird typed outside a code span under a rule weird -> weird.
C4_Witness ==
  /\ pc = "replaced"
  /\ ~OddBackticks
  /\ TheWord = <<"w","e","i","r","d">>
  /\ HasRule
  /\ TheRule = TheWordLower
  /\ result = Null

\* The text before the word and from the offset on, which a correction keeps.
Before == SubSeq(text, 1, cursorPos - Len(TheWord))

After == SubSeq(text, cursorPos + 1, Len(text))

IsLower(c) == \E i \in 1..Len(LowerLetters) : LowerLetters[i] = c

IsUpper(c) == \E i \in 1..Len(UpperLetters) : UpperLetters[i] = c

\* The case rule as the specification words it.
CaseRule(original, correction) ==
  IF /\ \A i \in 1..Len(original) : ~IsLower(original[i])
     /\ \E i \in 1..Len(original) : IsUpper(original[i])
  THEN [i \in 1..Len(correction) |->
          IF IsLower(correction[i])
          THEN UpperLetters[CHOOSE k \in 1..26 : LowerLetters[k] = correction[i]]
          ELSE correction[i]]
  ELSE IF IsUpper(original[1])
  THEN [i \in 1..Len(correction) |->
          IF i = 1 /\ IsLower(correction[i])
          THEN UpperLetters[CHOOSE k \in 1..26 : LowerLetters[k] = correction[i]]
          ELSE correction[i]]
  ELSE correction

\* C5: an applied correction is written all uppercase if the word is entirely
\* uppercase and has a letter, else with its first character capitalized if
\* the word's first character is uppercase, else verbatim.
C5_CaseRule ==
  (pc = "replaced" /\ result.ok) =>
    result.newText = Before \o CaseRule(TheWord, TheRule) \o After

\* C6: an applied correction changes only the word's span [start, offset):
\* the text before the word and the text from the offset on are kept, and
\* the span holds the correction, up to case.
C6_SpliceFrame ==
  (pc = "replaced" /\ result.ok) =>
    LET new == result.newText
        m == Len(new) - Len(Before) - Len(After)
    IN  /\ m = Len(TheRule)
        /\ SubSeq(new, 1, Len(Before)) = Before
        /\ SubSeq(new, Len(Before) + m + 1, Len(new)) = After
        /\ toLowerCase(SubSeq(new, Len(Before) + 1, Len(Before) + m))
             = toLowerCase(TheRule)

\* C6 case: a correction in the middle of a text, with text on both sides.
C6_Witness ==
  /\ pc = "replaced"
  /\ result.ok
  /\ Before # <<>>
  /\ After # <<>>
  /\ result.newText # text

\* C7: the returned cursor offset is the input offset plus the length of the
\* correction minus the length of the word.
C7_CursorShift ==
  (pc = "replaced" /\ result.ok) =>
    result.newCursorPos = cursorPos + (Len(TheRule) - Len(TheWord))

\* C7 case: occured -> occurred, one character longer, moves the cursor by one.
C7_Witness ==
  /\ pc = "replaced"
  /\ result.ok
  /\ Len(TheRule) = Len(TheWord) + 1
  /\ result.newCursorPos = cursorPos + 1

\* C8: for a text ending with a safe typo and one boundary character, cursor
\* at the end, the engine returns the text with the typo replaced, and for a
\* correction of equal length the new cursor offset is the old one.
TypoThenBoundaryAtEnd ==
  LET n == Len(text)
      typoLower == toLowerCase(WordBefore(text, n - 1))
  IN  /\ pc = "processed"
      /\ enabled
      /\ ~shouldSuppress(CurrentBlock, text)
      /\ cursorPos = n
      /\ n >= 2
      /\ text[n] \in BoundaryChars
      /\ Cardinality({i \in 1..n : text[i] = BACKTICK}) % 2 = 0
      /\ typoLower \in DOMAIN SAFE_SHORT_TYPOS
      /\ typoLower \in DOMAIN cachedRules
      /\ cachedRules[typoLower] = SAFE_SHORT_TYPOS[typoLower]

TypoReplacedInText ==
  LET n == Len(text)
      typo == WordBefore(text, n - 1)
      correction == cachedRules[toLowerCase(typo)]
      keep == n - 1 - Len(typo)
      new == result.newText
  IN  /\ result.ok
      /\ Len(new) = keep + Len(correction) + 1
      /\ SubSeq(new, 1, keep) = SubSeq(text, 1, keep)
      /\ toLowerCase(SubSeq(new, keep + 1, keep + Len(correction))) = correction
      /\ new[Len(new)] = text[n]

C8_TypoThenBoundaryAtEnd ==
  TypoThenBoundaryAtEnd =>
    LET typo == WordBefore(text, Len(text) - 1)
    IN  /\ TypoReplacedInText
        /\ Len(cachedRules[toLowerCase(typo)]) = Len(typo)
             => result.newCursorPos = cursorPos

\* What processAutocorrect returns there: the text with the typo replaced and
\* a cursor offset counted from the offset before the boundary character.
TypoThenBoundaryCursorBeforeBoundary ==
  TypoThenBoundaryAtEnd =>
    LET typo == WordBefore(text, Len(text) - 1)
    IN  /\ TypoReplacedInText
        /\ result.newCursorPos
             = cursorPos - 1 + (Len(cachedRules[toLowerCase(typo)]) - Len(typo))

\* The same text and offset handed to replaceWordBeforeCursor itself: the word
\* before the offset is empty and nothing is returned.
TypoThenBoundaryDirectCallIsNull ==
  (/\ pc = "replaced"
   /\ cursorPos = Len(text)
   /\ Len(text) >= 1
   /\ text[Len(text)] \in BoundaryChars)
  => result = Null

\* The case rule on words that begin with a letter.
CaseRuleForWordsStartingWithLetter ==
  (/\ pc = "replaced"
   /\ result.ok
   /\ IsLower(TheWord[1]) \/ IsUpper(TheWord[1]))
  => result.newText = Before \o CaseRule(TheWord, TheRule) \o After

\* C9: replaceWordBeforeCursor returns null whenever the number of code
\* delimiters in text[0, offset) is odd.
C9_OddBackticksNeverCorrected ==
  (pc = "replaced" /\ OddBackticks) => result = Null

\* C9 case: three delimiters, then a space and the safe typo teh with its rule.
C9_Witness ==
  /\ pc = "replaced"
  /\ Cardinality({i \in 1..cursorPos : text[i] = BACKTICK}) = 3
  /\ TheWord = <<"t","e","h">>
  /\ HasRule
  /\ TheRule = <<"t","h","e">>
  /\ result = Null

\* C10: a word with a digit or an underscore is never corrected, even when
\* the table holds that very word as a key.
C10_IdentifierNeverCorrected ==
  (pc = "replaced" /\ HasDigitOrUnderscore(TheWord)) => result = Null

\* C10 case: my_var typed outside a code span with a rule my_var -> myvar.
C10_Witness ==
  /\ pc = "replaced"
  /\ ~OddBackticks
  /\ TheWord = <<"m","y","_","v","a","r">>
  /\ HasRule
  /\ TheRule = <<"m","y","v","a","r">>
  /\ result = Null

\* C11: shouldTrigger is false for an empty or absent input, and otherwise
\* true exactly when the last character is whitespace or one of
\* . , ; : ! ? ( ) [ ] { } " '
TriggerCharacters ==
  {" ", "\t", "\n", "\r", "\f"}
    \cup {".", ",", ";", ":", "!", "?", "(", ")", "[", "]", "{", "}", "\"", "'"}

FirstMember(entries, key) ==
  CHOOSE n \in 1..Len(entries) :
    entries[n][1] = key /\ \A m \in 1..(n - 1) : entries[m][1] # key

LastValue(entries, key) ==
  LET n == CHOOSE n \in 1..Len(entries) :
             entries[n][1] = key /\ \A m \in (n + 1)..Len(entries) : entries[m][1] # key
  IN  entries[n][2]

StringKeys(entries) ==
  { entries[n][1] : n \in {m \in 1..Len(entries) : LastValue(entries, entries[m][1])[1] = "string"} }

\* the mapping with keys and values in lower case; of keys that differ only
\* in case the one written last counts
JsonExpected(entries) ==
  [k \in {toLowerCase(key) : key \in StringKeys(entries)} |->
     LET same == {key \in StringKeys(entries) : toLowerCase(key) = k}
         key  == CHOOSE x \in same :
                   \A y \in same : FirstMember(entries, y) <= FirstMember(entries, x)
     IN  toLowerCase(LastValue(entries, key)[2])]

\* C19: a text in the JSON format yields its mapping with every key and
\* value in lower case; a text between braces that fails to parse yields
\* what the line-based format makes of it, and nothing else.
C19_JsonOrLinesNeverMixed ==
  (parsed # <<>> /\ doc.kind = "json") =>
    IF doc.defect = "none"
      THEN parsed[1] = JsonExpected(doc.entries)
      ELSE parsed[1] = parseLines(splitLines(trim(personalInput)), NoRules)

\* C19 case: {"Teh":"The"} on several lines and padded has been parsed
C19_Witness ==
  /\ parsed # <<>>
  /\ doc.kind = "json" /\ doc.defect = "none"
  /\ doc.style = "pretty" /\ doc.pad = "spaces"
  /\ doc.entries = << << <<"T","e","h">>, <<"string", <<"T","h","e">> >> >> >>
  /\ parsed[1] = MkRules({ << <<"t","e","h">>, <<"t","h","e">> >> })

\* What a document in the line-based format denotes: the last rule line of
\* each typo counts; comments, blank lines and lone tokens are no rule lines.
RuleLines(lines) == {n \in 1..Len(lines) : lines[n].kind = "rule"}

LastRuleLine(lines, k) ==
  CHOOSE n \in RuleLines(lines) :
    /\ toLowerCase(lines[n].typo) = k
    /\ \A m \in RuleLines(lines) : toLowerCase(lines[m].typo) = k => m <= n

LineTypos(lines) == {toLowerCase(lines[n].typo) : n \in RuleLines(lines)}

\* C20 as stated: the correction is everything after the first token of the
\* line, in lower case.
C20_CorrectionIsRestOfLine ==
  (parsed # <<>> /\ doc.kind = "lines") =>
    parsed[1] =
      [k \in LineTypos(doc.lines) |->
         LET l == doc.lines[LastRuleLine(doc.lines, k)]
         IN  toLowerCase(join(l.words, l.wordSep))]

\* C20: in the line-based format the typo is the first token of a line and
\* the correction is the remaining tokens joined by single spaces, both in
\* lower case; comment lines, blank lines and lines of one token give no
\* rule; the last line of a typo wins.
C20_CorrectionIsTokensJoined ==
  (parsed # <<>> /\ doc.kind = "lines") =>
    parsed[1] =
      [k \in LineTypos(doc.lines) |->
         LET l == doc.lines[LastRuleLine(doc.lines, k)]
         IN  toLowerCase(join(l.words, <<" ">>))]

\* C20 case: "teh the" then "Teh The  End" (two spaces) has been parsed
C20_Witness ==
  /\ parsed # <<>>
  /\ doc.kind = "lines"
  /\ Len(doc.lines) = 2
  /\ doc.lines[1].kind = "rule" /\ doc.lines[1].typo = <<"t","e","h">>
  /\ Len(doc.lines[1].words) = 1
  /\ doc.lines[2].kind = "rule" /\ doc.lines[2].typo = <<"T","e","h">>
  /\ Len(doc.lines[2].words) = 2 /\ doc.lines[2].wordSep = <<" ", " ">>
  /\ parsed[1] = MkRules({ << <<"t","e","h">>, <<"t","h","e"," ","e","n","d">> >> })

\* The composition of three tables, key by key.
Composed(b, r, p) ==
  [k \in DOMAIN b \cup DOMAIN r \cup DOMAIN p |->
     IF k \in DOMAIN p THEN p[k] ELSE IF k \in DOMAIN r THEN r[k] ELSE b[k]]

\* C12: after a rebuild the effective table holds exactly the keys of its
\* three sources, each with the personal value if there is one, else the
\* remote value if there is one, else the base value.
C12_Precedence ==
  builtFrom # <<>> =>
    LET b == builtFrom[1].base
        r == orEmpty(builtFrom[1].remote)
        p == parsePersonalRules(builtFrom[1].text)
    IN  /\ DOMAIN cachedRules = DOMAIN b \cup DOMAIN r \cup DOMAIN p
        /\ \A k \in DOMAIN p : cachedRules[k] = p[k]
        /\ \A k \in DOMAIN r \ DOMAIN p : cachedRules[k] = r[k]
        /\ \A k \in DOMAIN b \ (DOMAIN r \cup DOMAIN p) : cachedRules[k] = b[k]

\* C12 case: teh is in all three sources, adn in base and remote, wierd in
\* the base only, freind in the remote table only, colour in personal only
C12_Witness ==
  /\ builtFrom # <<>>
  /\ builtFrom[1].base = BaseTable
  /\ builtFrom[1].remote = <<NewRemote>>
  /\ builtFrom[1].text = PersonalLines
  /\ cachedRules[<<"t","e","h">>] = <<"t","e","n">>
  /\ cachedRules[<<"a","d","n">>] = <<"a","d","d">>
  /\ cachedRules[<<"w","i","e","r","d">>] = <<"w","e","i","r","d">>
  /\ cachedRules[<<"f","r","e","i","n","d">>] = <<"f","r","i","e","n","d">>
  /\ cachedRules[<<"c","o","l","o","u","r">>] = <<"c","o","l","o","r">>

\* C13 as stated: every entry (t, c) of the effective table has t # c, t
\* outside the dialect-protected set and t and c outside the ambiguous set.
C13_EffectiveEntriesSafe ==
  \A t \in DOMAIN cachedRules :
    /\ cachedRules[t] # t
    /\ t \notin UK_ENGLISH_WORDS
    /\ t \notin AMBIGUOUS_WORDS
    /\ cachedRules[t] \notin AMBIGUOUS_WORDS

\* C16: the table a lookup is given is the whole table of the last rebuild,
\* or the empty table when there has been none; it holds nothing else.
C16_LookupSeesWholeTable ==
  [][(observed' # <<>> /\ <<observed, text>>' # <<observed, text>>) =>
       observed'[1] =
         IF builtFrom = <<>> THEN NoRules
         ELSE Composed(builtFrom[1].base, orEmpty(builtFrom[1].remote),
                       parsePersonalRules(builtFrom[1].text))]_vars

\* C16 case: a lookup after the table has been rebuilt for the JSON text,
\* which has none of the keys of the line-based text
C16_Witness ==
  /\ observed # <<>>
  /\ builtFrom # <<>>
  /\ builtFrom[1].text = PersonalJson
  /\ refreshing = "refreshed"
  /\ <<"m","i","n","e">> \in DOMAIN observed[1]
  /\ <<"c","o","l","o","u","r">> \notin DOMAIN observed[1]

\* C17 as stated: once the dictionary load and a successful refresh have
\* both completed, the effective table is the composition of the loaded
\* base, the refreshed remote table and the current personal rules.
C17_RefreshAlwaysReflected ==
  (dictionaryLoading = "done" /\ refreshing = "refreshed") =>
    cachedRules = Composed(baseSafe, settingsRemoteCachedRules[1],
                           parsePersonalRules(settingsPersonalRules))

\* C18: once the dictionary has loaded, the effective table is the
\* composition of the base, the remote table in use and the rules of the
\* current personal rules text, whenever that text was changed.
C18_PersonalRulesReflected ==
  dictionaryLoading = "done" =>
    cachedRules = Composed(baseSafe, orEmpty(remote),
                           parsePersonalRules(settingsPersonalRules))

\* C18 case: a lookup was given the rules of the line-based text, the
\* setting has since changed to the JSON text and the table holds its rules
C18_Witness ==
  /\ dictionaryLoading = "done"
  /\ observed # <<>>
  /\ <<"c","o","l","o","u","r">> \in DOMAIN observed[1]
  /\ settingsPersonalRules = PersonalJson
  /\ <<"m","i","n","e">> \in DOMAIN cachedRules
  /\ cachedRules[<<"w","i","e","r","d">>] = <<"w","i","r","e","d">>

\* C14 as stated: no two updateBlock calls come from handlers that read the
\* same state of the block's text.
C14_OneUpdatePerObservation ==
  \A i, j \in 1..Len(updates) :
    i # j => updates[i].seen # updates[j].seen

\* C15 as stated: a handler's attempt is suppressed only when what it read
\* is the text of the most recently applied correction.
C15_SuppressedOnlySameContent ==
  \A h \in DomHandlers :
    (handlers[h].pc = "hasCursor" /\ shouldSuppress(CurrentBlock, handlers[h].content)) =>
      /\ updates # <<>>
      /\ handlers[h].content = updates[Len(updates)].newText

---------------------------------------------------------------------------
(* The dictionary filter *)

\* what the data model asks of an entry (t, c) of a rule table
EntryConservative(t, c) ==
  /\ t # c
  /\ t \notin UK_ENGLISH_WORDS
  /\ t \notin AMBIGUOUS_WORDS
  /\ c \notin AMBIGUOUS_WORDS
  /\ (Len(t) >= MIN_SAFE_LENGTH \/ <<t, c>> \in SafeShortPairs)

TableConservative(rules) == \A t \in DOMAIN rules : EntryConservative(t, rules[t])

SourceLines == splitLines(dictContent)

ArrowAt(l) ==
  LET A == {i \in 1..(Len(l) - 1) : l[i] = "-" /\ l[i + 1] = ">"}
  IN  IF A = {} THEN 0 ELSE CHOOSE i \in A : \A j \in A : i <= j

TypoOf(l) == toLowerCase(trim(SubSeq(l, 1, ArrowAt(l) - 1)))

CandidatesOf(l) ==
  LET parts == splitComma(SubSeq(l, ArrowAt(l) + 2, Len(l)))
  IN  [i \in 1..Len(parts) |-> toLowerCase(trim(parts[i]))]

IsBlank(l) == trim(l) = <<>>

IsComment(l) == ~IsBlank(l) /\ trim(l)[1] = "#"

IsMalformed(l) ==
  \/ ArrowAt(l) = 0
  \/ TypoOf(l) = <<>>
  \/ \A i \in 1..Len(CandidatesOf(l)) : CandidatesOf(l)[i] = <<>>

IsSkipped(l) == IsBlank(l) \/ IsComment(l) \/ IsMalformed(l)

FirstIn(S) == CHOOSE i \in S : \A j \in S : i <= j

ProtectedAt(cs) == {i \in 1..Len(cs) : cs[i] \in UK_ENGLISH_WORDS}

NonEmptyAt(cs) == {i \in 1..Len(cs) : cs[i] # <<>>}

\* the first dialect-protected candidate, else the first candidate
FirstCandidate(cs) ==
  IF ProtectedAt(cs) # {} THEN cs[FirstIn(ProtectedAt(cs))] ELSE cs[1]

\* the first dialect-protected candidate, else the first non-empty candidate
FirstNonEmptyCandidate(cs) ==
  IF ProtectedAt(cs) # {} THEN cs[FirstIn(ProtectedAt(cs))]
  ELSE cs[FirstIn(NonEmptyAt(cs))]

\* the correction the loop of lines 123-135 leaves for line l
ChosenFor(l) ==
  chooseCorrection(lineCorrections(matchArrow(trim(l))), nullCorrection)

RuleLineAt == {i \in 1..Len(SourceLines) : ~IsSkipped(SourceLines[i])}

NotSkipped(l) == ~IsSkipped(l)

---------------------------------------------------------------------------
(* The remote refresh *)

\* the ways a refresh ends that the error handling speaks of
NoUpdateCauses == {"notModified", "notOk", "transport", "malformed"}

\* C24: the promise of maybeRefreshRemoteRules is never rejected; when the
\* call ends on a 304, a non-OK status, a transport failure or a body that
\* is not JSON it resolves to null, and the stored remote table and ETag are
\* the ones stored when it was called.
C24_NoUpdateKeepsCache ==
  /\ outcome.kind # "rejected"
  /\ (fetchPc = "done" /\ outcome.cause \in NoUpdateCauses) =>
       /\ outcome.kind = "null"
       /\ settingsRemoteCachedRules = atCall.cached
       /\ remoteETag = atCall.etag

\* over a stored table and ETag, a 200 response with a new ETag arrived and
\* its body was not JSON; the time of the check was stored
C24_Witness ==
  /\ fetchPc = "done"
  /\ outcome.cause = "malformed"
  /\ response.etag = "v2"
  /\ atCall = [cached |-> <<OldRemote>>, etag |-> "v1"]
  /\ remoteLastChecked = fetches[Len(fetches)].at

\* C25: every fetch was issued with remote updates enabled, a non-empty URL,
\* and at least the configured interval, and at least one hour, after the
\* last recorded check.
C25_FetchRateLimited ==
  \A i \in 1..Len(fetches) :
    LET f == fetches[i]
    IN  /\ f.opts.enabled
        /\ f.opts.url # ""
        /\ f.at - f.last >= f.opts.intervalHours * HOUR_MS
        /\ f.at - f.last >= HOUR_MS

\* a session fetched and recorded the check; the next session, configured
\* and started less than the interval later, returned without a fetch
C25_Witness ==
  /\ calls = 2
  /\ Len(fetches) = 1
  /\ remoteLastChecked = fetches[1].at
  /\ fetchPc = "done"
  /\ outcome.cause = "tooSoon"
  /\ now > remoteLastChecked
  /\ opts.enabled
  /\ opts.url # ""

\* C26: a fetch that failed in transport leaves the stored remote table as
\* it was, and every later fetch is issued at least the configured interval
\* after the failed one.
C26_RetryAfterInterval ==
  /\ (fetchPc = "done" /\ outcome.cause = "transport") =>
       settingsRemoteCachedRules = atCall.cached
  /\ \A i, j \in 1..Len(fetches) :
       (i < j /\ fetches[i].failed) =>
         fetches[j].at - fetches[i].at >= intervalMs(fetches[j].opts.intervalHours)

---------------------------------------------------------------------------
(* The trigger paths *)

\* C27: whenever a trigger path calls updateBlock, the enabled setting is
\* true at that moment.
C27_NoUpdateWhileDisabled ==
  attempt.pc = "updating" => attempt.enabledAtCall

\* an invocation that is past a host query holds what the host answered
AnsweredSoFar ==
  /\ attempt.pc \in (QueryPcs \cup {"updating", "restoring"}) \ {"checkEditing"} =>
       attempt.editing
  /\ attempt.pc \in {"pollFirstBlock", "getCursor", "getBlock", "updating", "restoring"} =>
       attempt.content # <<>>
  /\ attempt.pc \in {"getBlock", "updating", "restoring"} => attempt.pos # NullPos
  /\ attempt.pc \in {"updating", "restoring"} => attempt.block # NullUuid

\* a step of an invocation that does not call updateBlock
QueryStep ==
  \/ attempt'.pc = "checkEditing"
  \/ attempt.pc \in QueryPcs /\ attempt'.pc # "updating"

\* nothing the trigger paths read later has changed; the poll has its own
\* memory of the block (lines 654, 659-660), which it writes before it asks
\* for the cursor
NoTrace ==
  /\ UNCHANGED <<updates, lastCorrectedBlockUuid, lastCorrectedContentHash,
                 cachedRules, text>>
  /\ attempt.path # "polling" => UNCHANGED <<lastContent, lastBlockUuid>>

LastUpdate == updates[Len(updates)]

\* C29: an invocation that has applied a correction has called
\* restoreEditingCursor exactly when the new text and the old text differ
\* in length.
C29_RestoreIffLengthDiffers ==
  attempt.end \in {"corrected", "restored"} =>
    (attempt.end = "restored" <=> Len(LastUpdate.newText) # Len(LastUpdate.content))

\* C30: no call of updateBlock is made for content that is the text an
\* earlier call since the last keystroke has put in the block.
C30_NoCorrectionOfOwnOutput ==
  \A i, j \in 1..Len(updates) :
    i < j => updates[j].content # updates[i].newText

---------------------------------------------------------------------------
(* The polling loop *)

\* the number of iterations since the host last reported editing
TrailingIdle ==
  LET E == {i \in 1..Len(reports) : reports[i] = "editing"}
  IN  IF E = {} THEN Len(reports)
      ELSE Len(reports) - (CHOOSE i \in E : \A j \in E : j <= i)

EverEditing == \E i \in 1..Len(reports) : reports[i] = "editing"

\* C32: the delay of the next poll is 500 ms or 3000 ms; it is 3000 before
\* the first iteration, 500 after an iteration in which the host reported
\* editing, and 3000 again only when more than three iterations in a row
\* have not reported editing.
C32_IntervalFastOrIdle ==
  /\ pollIntervalMs \in {500, 3000}
  /\ reports = <<>> => pollIntervalMs = 3000
  /\ (reports # <<>> /\ reports[Len(reports)] = "editing") => pollIntervalMs = 500
  /\ (EverEditing /\ pollIntervalMs = 3000) => TrailingIdle > 3

\* the host reported editing, then four iterations without, and the loop
\* is back at 3000 ms
C32_Witness ==
  /\ EverEditing
  /\ TrailingIdle = 4
  /\ pollIntervalMs = 3000
  /\ consecutiveIdlePolls = 4


\* a correction is available for the word the user has just finished: the
\* text ends with a trigger character, the cursor is behind it, and the word
\* before it has a rule
CorrectionDue ==
  /\ text # <<>>
  /\ cursorPos = Len(text)
  /\ shouldTrigger(<<text[Len(text)]>>)
  /\ replaceWordBeforeCursor(text, Len(text) - 1, cachedRules).ok

\* C31: when the events fail to produce a correction, the polling loop
\* eventually applies the correction of a known safe typo that the user has
\* finished and left in the block
C31_PollingEventuallyCorrects == CorrectionDue ~> ~CorrectionDue


\* C33: the onInputSelectionEnd callback never calls updateBlock, whatever
\* the content and the cursor offset: no call is recorded and the callback
\* is never waiting for updateBlock or restoreEditingCursor
C33_SelectionNeverUpdates ==
  /\ updates = <<>>
  /\ attempt.pc \notin {"updating", "restoring"}

\* the callback ran to its end with the setting on, behind a trigger
\* character whose word has a rule, and found nothing to do
C33_Witness ==
  /\ enabled
  /\ attempt.end = "nothingToDo"
  /\ cursorPos > 0
  /\ shouldTrigger(charAt(text, cursorPos - 1))
  /\ replaceWordBeforeCursor(text, cursorPos - 1, cachedRules).ok
  /\ updates = <<>>


\* C34: every call updateBlock(uuid, newText) writes text derived from
\* content that was read from the block with that uuid, also when the user
\* moves to another block between the handler's content read and its
\* getCurrentBlock call
C34_WritesToBlockRead ==
  \A i \in 1..Len(updates) : updates[i].readFrom = updates[i].uuid


\* C35: when a handler calls updateBlock, the block's content still equals
\* the content the handler read, so nothing the user typed between the
\* handler's read and its write is discarded
C35_WriteOnContentRead ==
  [][Len(updates') > Len(updates) => updates'[Len(updates')].content = text]_vars


\* a key that is no plain lowercase word
OddKey(k) ==
  \E i \in 1..Len(k) :
    k[i] \in BoundaryChars \cup Digits \cup {"_"} \/ toLowerCaseChar(k[i]) # k[i]

\* the text before the offset spells k, up to case
Spells(k) ==
  /\ cursorPos >= Len(k)
  /\ toLowerCase(SubSeq(text, cursorPos - Len(k) + 1, cursorPos)) = toLowerCase(k)

\* the last call put the correction stored under k, in some casing, in the
\* place of the characters that spell k
Applied(k) ==
  /\ pc = "replaced"
  /\ result.ok
  /\ Spells(k)
  /\ LET from == cursorPos - Len(k)
         n == Len(cachedRules[k])
     IN  /\ Len(result.newText) = Len(text) - Len(k) + n
         /\ SubSeq(result.newText, 1, from) = SubSeq(text, 1, from)
         /\ toLowerCase(SubSeq(result.newText, from + 1, from + n))
              = toLowerCase(cachedRules[k])
         /\ SubSeq(result.newText, from + n + 1, Len(result.newText))
              = SubSeq(text, cursorPos + 1, Len(text))

\* C36: a rule whose key contains a boundary character, a digit, an
\* underscore or an uppercase letter is never applied by
\* replaceWordBeforeCursor, for any text and offset; a remote rule keeps its
\* key as received
C36_OddKeysNeverApplied ==
  /\ DOMAIN OddRemote \subseteq DOMAIN cachedRules
  /\ \A k \in DOMAIN cachedRules : OddKey(k) => ~Applied(k)

\* C36 case: Recieve is typed as the remote key spells it and the call
\* returns null; no rule is stored under recieve
C36_Witness ==
  /\ pc = "replaced"
  /\ TheWord = <<"R","e","c","i","e","v","e">>
  /\ Spells(TheWord)
  /\ TheWord \in DOMAIN cachedRules
  /\ OddKey(TheWord)
  /\ ~HasRule
  /\ result = Null


\* what a parsed body leaves in the setting, as the next session reads it
TableOf(res) == IF res.body = "rules" THEN <<NewRemote>> ELSE <<>>

Parsed200 == {res \in Responses : res.status = 200 /\ res.body \in {"rules", "null"}}

\* C37: the stored ETag and the stored remote table are written only
\* together, in the one settings update that follows a parsed 200 response,
\* so the stored ETag is always the one that came with the response that
\* produced the stored table, or both are as the session found them
C37_ETagAndTableTogether ==
  /\ [](\/ \E st \in StoredBefore :
              (remoteETag = st.etag /\ settingsRemoteCachedRules = st.cached)
         \/ \E res \in Parsed200 :
              (remoteETag = res.etag /\ settingsRemoteCachedRules = TableOf(res)))
  /\ [][(remoteETag' # remoteETag
           \/ settingsRemoteCachedRules' # settingsRemoteCachedRules)
         => (/\ fetchPc = "checked"
             /\ response \in Parsed200
             /\ remoteETag' = response.etag
             /\ settingsRemoteCachedRules' = TableOf(response)
             /\ fetchPc' = "done")]_vars

\* C37 case: a session that found v1 with the old table has stored a table
\* that came without an ETag header; the old ETag is gone
C37_Witness ==
  /\ fetchPc = "done"
  /\ outcome.cause = "stored"
  /\ atCall = [cached |-> <<OldRemote>>, etag |-> "v1"]
  /\ response.etag = ""
  /\ remoteETag = ""
  /\ settingsRemoteCachedRules = <<NewRemote>>


BothVerdicts == DOMAIN verdicts = {"runtime", "build"}

\* C38: on every lowercase pair (typo, correction) the runtime check
\* isSafeToCorrect and the build-time filter isSafeToInclude give the same
\* verdict, so what the build accepted the runtime check accepts
C38_SameVerdict ==
  BothVerdicts => verdicts["runtime"] = verdicts["build"]

\* C38 case: a short typo with the correction the exception list stores for
\* it, accepted by both checks
C38_Witness ==
  /\ BothVerdicts
  /\ pair = << <<"t","e","h">>, <<"t","h","e">> >>
  /\ verdicts["build"] = TRUE
  /\ verdicts["runtime"] = TRUE

=============================================================================
